---- MODULE Spec2Model ----
(***************************************************************************)
(* Lease / task-lock coordination layer of the SlotManager bot.           *)
(*                                                                         *)
(* AppManager (src/unnamed/part_001, lines 21-596) drives the life cycle   *)
(* of an instance with timers; BotManager (src/unnamed/part_002) starts    *)
(* and stops the Telegram bot.                                             *)
(* LockManager (src/unnamed/part_001, lines 615-1321) works on two shared  *)
(* MongoDB collections, Lock (leases) and TaskLock, through separate       *)
(* awaited reads and writes.  Every await is a point where another         *)
(* instance, or another timer callback of the same instance, can run, so   *)
(* each awaited store operation is one action of the model.                *)
(*                                                                         *)
(* Time is Date.now() in milliseconds and advances in steps of TickMs.     *)
(* Rows left behind by an earlier, crashed process (holder "old") carry    *)
(* timestamps before the start of the run (negative values).               *)
(***************************************************************************)
EXTENDS Integers, FiniteSets, Sequences, TLC

VARIABLES
  now,         \* Date.now(), ms
  locks,       \* Lock collection: set of lease rows
  taskLocks,   \* TaskLock collection: set of task-lock rows
  call,        \* per caller: the LockManager call in progress
  lmConflict,  \* per instance: LockManager.telegramConflictDetected / lastTelegramConflictTime
  lockFile,    \* per instance: holder named by the local .bot_lock file, or "none"
  app,         \* per instance: AppManager / BotManager fields and pending timers
  env          \* how often the environment has interfered so far

lmVars == <<lmConflict, lockFile, app, env>>
storeVars == <<now, locks, taskLocks, lmConflict, lockFile, env>>
vars == <<now, locks, taskLocks, call, lmConflict, lockFile, app, env>>

----------------------------------------------------------------------------
(* Bounds of the model *)

MaxTicks == 1          \* how many times the clock advances in a run
MaxChannelFailures == 1   \* Telegram calls that fail in a run
MaxReclaims == 1          \* lease rows removed by processes outside the model
MaxPollingErrors == 1     \* polling errors reported to a running bot
MaxStoreErrors == 1       \* store operations that throw in a run

(* Granularity of the clock: every timeout of the code is a multiple. *)
TickMs == 20 * 1000

----------------------------------------------------------------------------
(* Program constants, in ms *)

GLOBAL_LOCK_TIMEOUT == 180000
TASK_LOCK_TIMEOUT == 60000
HEARTBEAT_LOCK_TIMEOUT == 20000
TELEGRAM_TEST_TIMEOUT == 20000
TEST_LOCK_ACQUIRE_AGE == 60000
TEST_LOCK_CLEANUP_AGE == 120000

Instances == {"a", "b"}
Old == "old"                       \* a crashed earlier process
Holders == Instances \cup {Old}

(* Callers: concurrent async call chains (timer callbacks).  Each call is  *)
(* made by one instance; two chains of the same instance are overlapping   *)
(* callbacks of that process.                                              *)
Procs == {"p1", "p2"}

TEST == "telegram_test"
JOB == "check_expiring_sessions"
EXEC_HB == "execution_heartbeat"
MASTER_HB == "master_heartbeat"
TaskNames == {JOB, TEST}

(* nothing has happened yet *)
EnvInit == [failures |-> 0, reclaims |-> 0, pollingErrors |-> 0, storeErrors |-> 0]

(* LockManager constructor, lines 625-626 *)
NoConflict == [detected |-> FALSE, time |-> -1]
(* timeoutMs values a caller passes: the 20 s of the probe and of the      *)
(* execution heartbeat, and a caller-chosen value above the age ceilings   *)
(* (within the run it behaves like the default 60 s: it does not expire).  *)
LongTaskTTL == 9 * TickMs
TaskTTLs == {HEARTBEAT_LOCK_TIMEOUT, LongTaskTTL}

----------------------------------------------------------------------------
(* TaskLock collection *)

TaskRow(t, id, h, c, e) ==
  [task_name |-> t, lock_id |-> id, instance_id |-> h, created_at |-> c, expires_at |-> e]

(* TaskLock.findOne / find ({task_name, expires_at: {$gt: new Date()}}) *)
ActiveTaskLocks(t) == {r \in taskLocks : r.task_name = t /\ r.expires_at > now}

(* lockId = `${taskName}_${Date.now()}_${uuid}`: unique per attempt.  The  *)
(* model takes the smallest number no row and no caller holds.             *)
UsedLockIds(i, t) ==
  {r.lock_id : r \in {x \in taskLocks : x.instance_id = i /\ x.task_name = t}}
  \cup {call[p].lockId : p \in {q \in Procs : call[q].inst = i /\ call[q].task = t}}
FreshLockId(i, t) ==
  CHOOSE n \in 1..(Cardinality(UsedLockIds(i, t)) + 1) : n \notin UsedLockIds(i, t)

(* n, nOld, nAll: the deletedCount values a sweep adds up (lines 843,     *)
(* 867-870); nAll is result.deletedCount of cleanupExpiredTaskLocks' own   *)
(* deleteMany (line 867)                                                   *)
(* doc: the _id of the lease document a call read and will save()          *)
(* hb: executionLock.last_heartbeat as isActiveInstance read it (line 671) *)
Idle == [op |-> "idle", pc |-> "idle", inst |-> "none", task |-> "none", ttl |-> 0,
         lockId |-> 0, res |-> "none", n |-> 0, nOld |-> 0, nAll |-> 0, doc |-> 0,
         hb |-> 0, cb |-> "none"]
NewCall(o, pc0, i, t, ttl, id) ==
  [op |-> o, pc |-> pc0, inst |-> i, task |-> t, ttl |-> ttl, lockId |-> id,
   res |-> "none", n |-> 0, nOld |-> 0, nAll |-> 0, doc |-> 0, hb |-> 0, cb |-> "none"]

Frame(p) == call[p]
InstanceOf(p) == call[p].inst
Goto(p, pcNew) == call' = [call EXCEPT ![p].pc = pcNew]
Finish(p, r) == call' = [call EXCEPT ![p].pc = "done", ![p].res = r]

(* First lease read after a successful probe: lines 1011 and 1101 *)
AfterProbe(op) == IF op = "acquireMasterLock" THEN "m_execFind" ELSE "e_find"

(* First awaited step of acquireTaskLock: only the probe task has the      *)
(* preventive deleteMany in front of the findOne.                          *)
AcquireEntry(t) == IF t = TEST THEN "tl_pre" ELSE "tl_find"

AcquireOps == {"acquireMasterLock", "acquireExecutionLock"}
HeartbeatOps == {"updateExecutionLockHeartbeat", "updateMasterLockHeartbeat"}

(* Where executeWithLock continues once acquireTaskLock returned success   *)
(* (line 812): the heartbeat's function (lines 1166, 1196) or the job.     *)
BodyPc(op) ==
  IF op \in HeartbeatOps THEN "hb_find"
  ELSE IF op = "testTelegramConnection" THEN "getMe"
  ELSE "fn"

(* What the caller of acquireTaskLock returns when the lock is refused:    *)
(* executeWithLock null (line 807), testTelegramConnection false (line 958) *)
Refusal(op) == IF op = "testTelegramConnection" THEN "false" ELSE "null"

----------------------------------------------------------------------------
(* LockManager.executeWithLock(taskName, taskFunction, timeoutMs) *)

ExecuteWithLock(p, i, t, ttl) ==
  /\ Frame(p).op = "idle"
  /\ call' = [call EXCEPT ![p] =
        NewCall("executeWithLock", AcquireEntry(t), i, t, ttl, FreshLockId(i, t))]
  /\ UNCHANGED <<now, locks, taskLocks, lmVars>>

(* A sweep that compares the expiry instead of the creation time. *)
TestLocksOlderThan_ByExpiry(age) ==
  {r \in taskLocks : r.task_name = TEST /\ r.expires_at < now - age}

(* TaskLock rows matched by {task_name: 'telegram_test', created_at: {$lt: now - age}} *)
TestLocksOlderThan(age) ==
  {r \in taskLocks : r.task_name = TEST /\ r.created_at < now - age}

(* TaskLock rows matched by {expires_at: {$lt: new Date()}} *)
ExpiredTaskLocks == {r \in taskLocks : r.expires_at < now}

(* acquireTaskLock, lines 701-708: deleteMany telegram_test older than 1 minute *)
TlPre(p) ==
  /\ Frame(p).pc = "tl_pre"
  /\ taskLocks' = taskLocks \ TestLocksOlderThan(TEST_LOCK_ACQUIRE_AGE)
  /\ Goto(p, "tl_find")
  /\ UNCHANGED <<now, locks, lmVars>>

(* acquireTaskLock, lines 711-742: findOne a non-expired lock of the task *)
TlFindNone(p) ==
  /\ Frame(p).pc = "tl_find"
  /\ ActiveTaskLocks(Frame(p).task) = {}
  /\ Goto(p, "tl_save")
  /\ UNCHANGED <<now, locks, taskLocks, lmVars>>

(* an existing lock: the call fails, unless it is an old probe lock, which *)
(* is deleted (deleteOne by _id, line 722) before a new one is saved        *)
TlFindExisting(p) ==
  /\ Frame(p).pc = "tl_find"
  /\ \E e \in ActiveTaskLocks(Frame(p).task) :
       IF Frame(p).task = TEST /\ now - e.created_at > TEST_LOCK_ACQUIRE_AGE
       THEN /\ taskLocks' = taskLocks \ {e}
            /\ Goto(p, "tl_save")
       ELSE /\ taskLocks' = taskLocks
            /\ Finish(p, Refusal(Frame(p).op))
  /\ UNCHANGED <<now, locks, lmVars>>

(* acquireTaskLock, lines 745-759 (and 725-736): taskLock.save() *)
TlSave(p) ==
  /\ Frame(p).pc = "tl_save"
  /\ taskLocks' = taskLocks \cup
       {TaskRow(Frame(p).task, Frame(p).lockId, InstanceOf(p), now, now + Frame(p).ttl)}
  /\ Goto(p, BodyPc(Frame(p).op))
  /\ UNCHANGED <<now, locks, lmVars>>

(* executeWithLock, lines 810-816: taskFunction() returns or throws *)
FnEnds(p) ==
  /\ Frame(p).pc = "fn"
  /\ \E r \in {"ok", "throw"} :
       call' = [call EXCEPT ![p].pc = "tl_release", ![p].res = r]
  /\ UNCHANGED <<now, locks, taskLocks, lmVars>>

(* A release that deletes nothing. *)
TlRelease_Skipped(p) ==
  /\ Frame(p).pc = "tl_release"
  /\ Goto(p, "done")
  /\ UNCHANGED <<now, locks, taskLocks, lmVars>>

(* A release that deletes by task name alone. *)
TlRelease_AnyLockId(p) ==
  LET gone == {r \in taskLocks : r.task_name = Frame(p).task} IN
  /\ Frame(p).pc = "tl_release"
  /\ taskLocks' = taskLocks \ gone
  /\ call' = [call EXCEPT ![p].pc = "done", ![p].n = Cardinality(gone)]
  /\ UNCHANGED <<now, locks, lmVars>>

(* releaseTaskLock, lines 772-791: deleteOne({task_name, lock_id}); n is   *)
(* result.deletedCount, on which the return value depends (lines 780-786)  *)
TlRelease(p) ==
  LET gone == {r \in taskLocks : /\ r.task_name = Frame(p).task
                                 /\ r.instance_id = InstanceOf(p)
                                 /\ r.lock_id = Frame(p).lockId}
  IN
  /\ Frame(p).pc = "tl_release"
  /\ taskLocks' = taskLocks \ gone
  /\ call' = [call EXCEPT ![p].pc = "done", ![p].n = Cardinality(gone)]
  /\ UNCHANGED <<now, locks, lmVars>>

----------------------------------------------------------------------------
(* LockManager.cleanupExpiredTaskLocks and cleanupTelegramTestLocks *)

SweepCall(i) == NewCall("cleanupExpiredTaskLocks", "ce_all", i, "none", 0, 0)
TestSweepCall(i) == NewCall("cleanupTelegramTestLocks", "ct_exp", i, "none", 0, 0)

CleanupExpiredTaskLocks(p, i) ==
  /\ Frame(p).op = "idle"
  /\ call' = [call EXCEPT ![p] = SweepCall(i)]
  /\ UNCHANGED <<now, locks, taskLocks, lmVars>>

CleanupTelegramTestLocks(p, i) ==
  /\ Frame(p).op = "idle"
  /\ call' = [call EXCEPT ![p] = TestSweepCall(i)]
  /\ UNCHANGED <<now, locks, taskLocks, lmVars>>

(* cleanupExpiredTaskLocks, lines 863-867: deleteMany expired locks of any task *)
CeAll(p) ==
  /\ Frame(p).pc = "ce_all"
  /\ taskLocks' = taskLocks \ ExpiredTaskLocks
  /\ call' = [call EXCEPT ![p].pc = "ct_exp", ![p].n = Cardinality(ExpiredTaskLocks),
                           ![p].nAll = Cardinality(ExpiredTaskLocks)]
  /\ UNCHANGED <<now, locks, lmVars>>

(* cleanupTelegramTestLocks, lines 830-833: deleteMany expired probe locks *)
CtExpired(p) ==
  /\ Frame(p).pc = "ct_exp"
  /\ LET gone == {r \in ExpiredTaskLocks : r.task_name = TEST} IN
       /\ taskLocks' = taskLocks \ gone
       /\ call' = [call EXCEPT ![p].pc = "ct_old", ![p].n = @ + Cardinality(gone)]
  /\ UNCHANGED <<now, locks, lmVars>>

(* cleanupTelegramTestLocks, lines 837-849: deleteMany probe locks created *)
(* more than 2 minutes ago, whatever their expiry                          *)
CtOld(p) ==
  /\ Frame(p).pc = "ct_old"
  /\ LET gone == TestLocksOlderThan(TEST_LOCK_CLEANUP_AGE) IN
       /\ taskLocks' = taskLocks \ gone
       /\ call' = [call EXCEPT ![p].pc = "done", ![p].res = "count",
                                ![p].n = @ + Cardinality(gone),
                                ![p].nOld = Cardinality(gone)]
  /\ UNCHANGED <<now, locks, lmVars>>

----------------------------------------------------------------------------
(* Lock collection (leases) *)

MASTER == "master"
EXECUTION == "execution"
LeaseNames == {MASTER, EXECUTION}

LockRow(nm, h, hb, id) == [name |-> nm, instance_id |-> h, last_heartbeat |-> hb, id |-> id]

(* {last_heartbeat: {$gt: new Date(Date.now() - GLOBAL_LOCK_TIMEOUT)}} *)
IsLive(r) == r.last_heartbeat > now - GLOBAL_LOCK_TIMEOUT
(* A staleness filter that takes a row exactly GLOBAL_LOCK_TIMEOUT old too. *)
IsStale_Inclusive(r) == r.last_heartbeat <= now - GLOBAL_LOCK_TIMEOUT

(* {last_heartbeat: {$lt: new Date(Date.now() - GLOBAL_LOCK_TIMEOUT)}} *)
IsStale(r) == r.last_heartbeat < now - GLOBAL_LOCK_TIMEOUT

LiveLocks(nm) == {r \in locks : r.name = nm /\ IsLive(r)}
StaleLocks(nm) == {r \in locks : r.name = nm /\ IsStale(r)}
OwnLocks(nm, i) == {r \in locks : r.name = nm /\ r.instance_id = i}

LeaseOf(op) ==
  IF op \in {"acquireExecutionLock", "updateExecutionLockHeartbeat"} THEN EXECUTION ELSE MASTER

(* _id of a document: unique among the rows of one instance and name, and *)
(* among the documents a call of that instance still refers to            *)
UsedDocIds(nm, i) ==
  {r.id : r \in OwnLocks(nm, i)}
  \cup {call[p].doc : p \in {q \in Procs : call[q].inst = i /\ LeaseOf(call[q].op) = nm}}
FreshDocId(nm, i) ==
  CHOOSE n \in 1..(Cardinality(UsedDocIds(nm, i)) + 1) : n \notin UsedDocIds(nm, i)

(* testTelegramConnection, lines 927-933: a conflict seen less than 60 s ago *)
PROBE_BACKOFF == 60000

(* A back-off that still holds when exactly 60 s have passed. *)
InBackoff_Inclusive(i) ==
  /\ lmConflict[i].detected
  /\ lmConflict[i].time # -1
  /\ now - lmConflict[i].time <= PROBE_BACKOFF

InBackoff(i) ==
  /\ lmConflict[i].detected
  /\ lmConflict[i].time # -1
  /\ now - lmConflict[i].time < PROBE_BACKOFF

(* acquireMasterLock / acquireExecutionLock / testTelegramConnection up to *)
(* the first await: the probe's back-off check (lines 927-933)             *)
ProbeCall(i, o) ==
  IF InBackoff(i)
  THEN [NewCall(o, "done", i, "none", 0, 0) EXCEPT !.res = "false"]
  ELSE NewCall(o, "probe", i, "none", 0, 0)

BeginAcquire(p, i, o) ==
  /\ Frame(p).op = "idle"
  /\ call' = [call EXCEPT ![p] = ProbeCall(i, o)]
  /\ UNCHANGED <<now, locks, taskLocks, lmVars>>

AcquireMasterLock(p, i) == BeginAcquire(p, i, "acquireMasterLock")
AcquireExecutionLock(p, i) == BeginAcquire(p, i, "acquireExecutionLock")

(* testTelegramConnection, lines 937-990, run without interleaving:        *)
(* acquireTaskLock('telegram_test', 20000) deletes the probe locks older   *)
(* than a minute and is refused by an unexpired one; otherwise getMe()     *)
(* succeeds, fails with 409 Conflict, or fails with another error, and the *)
(* probe lock is released again.                                           *)
ChannelOutcomes ==
  {"ok"} \cup (IF env.failures < MaxChannelFailures THEN {"conflict", "error"} ELSE {})

(* An acquire that goes on to the leases whatever the probe reported. *)
TestTelegramConnection_Ignored(p) ==
  /\ Frame(p).pc = "probe"
  /\ \E out \in ChannelOutcomes :
       /\ env' = IF out = "ok" THEN env ELSE [env EXCEPT !.failures = @ + 1]
       /\ IF Frame(p).op \in AcquireOps THEN Goto(p, AfterProbe(Frame(p).op))
          ELSE Finish(p, "true")
  /\ UNCHANGED <<now, locks, taskLocks, lmConflict, lockFile, app>>

TestTelegramConnection(p) ==
  LET kept == taskLocks \ TestLocksOlderThan(TEST_LOCK_ACQUIRE_AGE)
      busy == {r \in kept : r.task_name = TEST /\ r.expires_at > now}
  IN
  /\ Frame(p).pc = "probe"
  /\ taskLocks' = kept
  /\ IF busy # {}
     THEN /\ Finish(p, "false")
          /\ lmConflict' = lmConflict
          /\ env' = env
     ELSE \E out \in ChannelOutcomes :
            /\ env' = IF out = "ok" THEN env ELSE [env EXCEPT !.failures = @ + 1]
            /\ lmConflict' = [lmConflict EXCEPT ![InstanceOf(p)] =
                 IF out = "ok" THEN [@ EXCEPT !.detected = FALSE]
                 ELSE IF out = "conflict" THEN [detected |-> TRUE, time |-> now]
                 ELSE @]
            /\ IF out # "ok" THEN Finish(p, "false")
               ELSE IF Frame(p).op \in AcquireOps THEN Goto(p, AfterProbe(Frame(p).op))
               ELSE Finish(p, "true")
  /\ UNCHANGED <<now, locks, lockFile, app>>

(* An acquireMasterLock that does not look at the execution leases. *)
MExecFind_Skipped(p) ==
  /\ Frame(p).pc = "m_execFind"
  /\ Goto(p, "m_staleDel")
  /\ UNCHANGED <<now, locks, taskLocks, lmVars>>

(* acquireMasterLock, lines 1011-1026: a live execution lease of another instance *)
MExecFind(p) ==
  /\ Frame(p).pc = "m_execFind"
  /\ \/ /\ LiveLocks(EXECUTION) = {}
        /\ Goto(p, "m_staleDel")
     \/ \E e \in LiveLocks(EXECUTION) :
          IF e.instance_id = InstanceOf(p) THEN Goto(p, "m_staleDel") ELSE Finish(p, "false")
  /\ UNCHANGED <<now, locks, taskLocks, lmVars>>

(* acquireMasterLock, lines 1029-1035: deleteMany stale leases of any name *)
MStaleDel(p) ==
  /\ Frame(p).pc = "m_staleDel"
  /\ locks' = {r \in locks : ~IsStale(r)}
  /\ Goto(p, "m_find")
  /\ UNCHANGED <<now, taskLocks, lmVars>>

(* lines 1038-1056 and 1101-1119: findOne a live lease of the name *)
LeaseFind(p, pcFind, pcDel) ==
  /\ Frame(p).pc = pcFind
  /\ \/ /\ LiveLocks(LeaseOf(Frame(p).op)) = {}
        /\ Goto(p, pcDel)
     \/ \E e \in LiveLocks(LeaseOf(Frame(p).op)) :
          IF e.instance_id # InstanceOf(p)
          THEN Finish(p, "false")
          ELSE call' = [call EXCEPT ![p].pc = "l_refresh", ![p].doc = e.id]
  /\ UNCHANGED <<now, locks, taskLocks, lmVars>>

MFind(p) == LeaseFind(p, "m_find", "m_del")
EFind(p) == LeaseFind(p, "e_find", "e_del")

(* document.save() of a lease read before (lines 1052-1053, 1115-1116,     *)
(* 1173-1174, 1203-1204): an update of last_heartbeat by _id.  If the row  *)
(* was deleted in between nothing is written, and the driver either        *)
(* reports success or throws (caught: the call returns false).             *)
SaveHeartbeat(p) ==
  LET mine == {r \in OwnLocks(LeaseOf(Frame(p).op), InstanceOf(p)) : r.id = Frame(p).doc} IN
  IF mine # {}
  THEN /\ locks' = (locks \ mine) \cup {[r EXCEPT !.last_heartbeat = now] : r \in mine}
       /\ call' = [call EXCEPT ![p].res = "true", ![p].doc = 0,
                    ![p].pc = IF Frame(p).op \in HeartbeatOps THEN "tl_release" ELSE "done"]
  ELSE /\ locks' = locks
       /\ \E r \in {"true", "false"} :
            call' = [call EXCEPT ![p].res = r, ![p].doc = 0,
                      ![p].pc = IF Frame(p).op \in HeartbeatOps THEN "tl_release" ELSE "done"]

LRefresh(p) ==
  /\ Frame(p).pc = "l_refresh"
  /\ SaveHeartbeat(p)
  /\ UNCHANGED <<now, taskLocks, lmVars>>

(* lines 1059-1063 and 1122-1126: deleteMany stale leases of the name *)
LeaseDel(p, pcDel, pcInsert) ==
  /\ Frame(p).pc = pcDel
  /\ locks' = locks \ StaleLocks(LeaseOf(Frame(p).op))
  /\ Goto(p, pcInsert)
  /\ UNCHANGED <<now, taskLocks, lmVars>>

MDel(p) == LeaseDel(p, "m_del", "m_insert")
EDel(p) == LeaseDel(p, "e_del", "e_insert")

(* acquireMasterLock, lines 1066-1077: lock.save() of a new master lease *)
MInsert(p) ==
  /\ Frame(p).pc = "m_insert"
  /\ locks' = locks \cup {LockRow(MASTER, InstanceOf(p), now, FreshDocId(MASTER, InstanceOf(p)))}
  /\ Finish(p, "true")
  /\ UNCHANGED <<now, taskLocks, lmVars>>

(* acquireExecutionLock, lines 1133-1151: lock.save() of a new execution   *)
(* lease, then localLockManager.createLockFile()                           *)
EInsert(p) ==
  /\ Frame(p).pc = "e_insert"
  /\ locks' = locks \cup {LockRow(EXECUTION, InstanceOf(p), now, FreshDocId(EXECUTION, InstanceOf(p)))}
  /\ lockFile' = [lockFile EXCEPT ![InstanceOf(p)] = InstanceOf(p)]
  /\ Finish(p, "true")
  /\ UNCHANGED <<now, taskLocks, lmConflict, app, env>>

----------------------------------------------------------------------------
(* updateExecutionLockHeartbeat / updateMasterLockHeartbeat:               *)
(* executeWithLock('execution_heartbeat', fn, 20000) and                   *)
(* executeWithLock('master_heartbeat', fn)                                 *)

ExecutionHeartbeatCall(i) ==
  NewCall("updateExecutionLockHeartbeat", "tl_find", i, EXEC_HB,
          HEARTBEAT_LOCK_TIMEOUT, FreshLockId(i, EXEC_HB))
MasterHeartbeatCall(i) ==
  NewCall("updateMasterLockHeartbeat", "tl_find", i, MASTER_HB,
          TASK_LOCK_TIMEOUT, FreshLockId(i, MASTER_HB))

UpdateExecutionLockHeartbeat(p, i) ==
  /\ Frame(p).op = "idle"
  /\ call' = [call EXCEPT ![p] = ExecutionHeartbeatCall(i)]
  /\ UNCHANGED <<now, locks, taskLocks, lmVars>>

UpdateMasterLockHeartbeat(p, i) ==
  /\ Frame(p).op = "idle"
  /\ call' = [call EXCEPT ![p] = MasterHeartbeatCall(i)]
  /\ UNCHANGED <<now, locks, taskLocks, lmVars>>

(* lines 1166-1180 and 1196-1210: findOne the lease row of this instance *)
HbFind(p) ==
  /\ Frame(p).pc = "hb_find"
  /\ \/ /\ OwnLocks(LeaseOf(Frame(p).op), InstanceOf(p)) = {}
        /\ call' = [call EXCEPT ![p].pc = "tl_release", ![p].res = "false"]
     \/ \E e \in OwnLocks(LeaseOf(Frame(p).op), InstanceOf(p)) :
          call' = [call EXCEPT ![p].pc = "hb_save", ![p].doc = e.id]
  /\ UNCHANGED <<now, locks, taskLocks, lmVars>>

HbSave(p) ==
  /\ Frame(p).pc = "hb_save"
  /\ SaveHeartbeat(p)
  /\ UNCHANGED <<now, taskLocks, lmVars>>

----------------------------------------------------------------------------
(* LockManager.releaseAllLocks, lines 1303-1320 *)

ReleaseCall(i) == NewCall("releaseAllLocks", "r_tasks", i, "none", 0, 0)

ReleaseAllLocks(p, i) ==
  /\ Frame(p).op = "idle"
  /\ call' = [call EXCEPT ![p] = ReleaseCall(i)]
  /\ UNCHANGED <<now, locks, taskLocks, lmVars>>

(* TaskLock.deleteMany({instance_id}) *)
RTasks(p) ==
  /\ Frame(p).pc = "r_tasks"
  /\ taskLocks' = {r \in taskLocks : r.instance_id # InstanceOf(p)}
  /\ Goto(p, "r_locks")
  /\ UNCHANGED <<now, locks, lmVars>>

(* A releaseAllLocks that removes the rows but leaves the marker in place. *)
RLocks_KeepMarker(p) ==
  /\ Frame(p).pc = "r_locks"
  /\ locks' = {r \in locks : r.instance_id # InstanceOf(p)}
  /\ Finish(p, "true")
  /\ UNCHANGED <<now, taskLocks, lmVars>>

(* Lock.deleteMany({instance_id}), then localLockManager.removeLockFile() *)
RLocks(p) ==
  /\ Frame(p).pc = "r_locks"
  /\ locks' = {r \in locks : r.instance_id # InstanceOf(p)}
  /\ lockFile' = [lockFile EXCEPT ![InstanceOf(p)] =
                    IF @ = InstanceOf(p) THEN "none" ELSE @]
  /\ Finish(p, "true")
  /\ UNCHANGED <<now, taskLocks, lmConflict, app, env>>

----------------------------------------------------------------------------
(* A store operation throws (network error, time-out): the catch block of  *)
(* the LockManager method that awaits it decides the result.               *)

LeasePcs == {"m_execFind", "m_staleDel", "m_find", "e_find", "l_refresh",
             "m_del", "e_del", "m_insert", "e_insert"}
SweepPcs == {"ce_all", "ct_exp", "ct_old"}
(* the two findOne of isActiveInstance *)
ActivePcs == {"ia_own", "ia_newer"}
(* the awaits of LockManager.initialize and of emergencyCleanupLocks *)
StartPcs == {"li_locks", "li_tasks", "ec_test", "ec_find", "ec_old"}

(* the frame of caller p after the operation it awaits has thrown:          *)
(*   probe             acquireTaskLock returns {success: false} (lines      *)
(*                     759-762), the findOne after it throws, the probe     *)
(*                     returns false (lines 975-979)                        *)
(*   lease reads and writes of an acquire: false (lines 1077-1081,          *)
(*                     1152-1156)                                           *)
(*   acquireTaskLock of a heartbeat: executeWithLock returns null (line 807)*)
(*   the heartbeat's function: the task lock is released (line 817) and     *)
(*                     the heartbeat returns false (lines 1182-1185,        *)
(*                     1212-1215)                                           *)
(*   releaseTaskLock   returns false (lines 787-790), the row stays         *)
(*   a sweep           returns without deleting further: 0 from the catch   *)
(*                     block of the method whose deleteMany threw (lines    *)
(*                     850-853, 876-879), so that cleanupExpiredTaskLocks   *)
(*                     returns the count of its own deleteMany when the     *)
(*                     deleteMany of cleanupTelegramTestLocks throws (line  *)
(*                     870)                                                 *)
(*   releaseAllLocks   returns false (lines 1316-1319): nothing after the   *)
(*                     failed operation is done                             *)
(*   isActiveInstance  returns false (lines 681-685)                        *)
(*   initialize, emergencyCleanupLocks   return false (lines 642-645,       *)
(*                     911-914): nothing after the failed operation is done *)
AfterStoreError(f) ==
  IF f.pc = "probe" \/ f.pc \in LeasePcs THEN [f EXCEPT !.pc = "done", !.res = "false", !.doc = 0]
  ELSE IF f.pc \in {"tl_pre", "tl_find", "tl_save"} THEN [f EXCEPT !.pc = "done", !.res = "null"]
  ELSE IF f.pc \in {"hb_find", "hb_save"}
  THEN [f EXCEPT !.pc = "tl_release", !.res = "false", !.doc = 0]
  ELSE IF f.pc = "tl_release" THEN [f EXCEPT !.pc = "done"]
  ELSE IF f.pc \in SweepPcs
  THEN [f EXCEPT !.pc = "done", !.res = "count",
                 !.n = IF f.op = "cleanupExpiredTaskLocks" /\ f.pc # "ce_all"
                       THEN f.nAll ELSE 0]
  ELSE [f EXCEPT !.pc = "done", !.res = "false"]

StoreError(p) ==
  /\ env.storeErrors < MaxStoreErrors
  /\ Frame(p).pc \in {"probe", "tl_pre", "tl_find", "tl_save", "hb_find", "hb_save",
                      "tl_release", "r_tasks", "r_locks"}
                        \cup LeasePcs \cup SweepPcs \cup StartPcs \cup ActivePcs
  /\ call' = [call EXCEPT ![p] = AfterStoreError(Frame(p))]
  /\ env' = [env EXCEPT !.storeErrors = @ + 1]
  /\ UNCHANGED <<now, locks, taskLocks, lmConflict, lockFile, app>>

----------------------------------------------------------------------------
(* AppManager and BotManager: the life cycle of an instance                *)
(*                                                                         *)
(* app[i] holds the fields of the AppManager and BotManager of instance i: *)
(*   shutdown    isShuttingDown, as the reason given to performShutdown    *)
(*   masterHb    masterLockHeartbeatInterval is set                        *)
(*   execHb      executionLockHeartbeatInterval is set                     *)
(*   lockCheck   lockCheckInterval is set                                  *)
(*   timers      the one-shot setTimeout callbacks that are pending        *)
(*   bot         BotManager: "none" (bot = null), "starting" (isBotStarting*)
(*               during the probe), "running" (bot set, polling)           *)
(*   lastAttempt lastConnectionAttemptTime                                 *)
(*   connected   the mongoose connection is open (performShutdown closes   *)
(*               it; the process itself goes on running)                   *)
(*   finished    performShutdown has returned                              *)
(*   exited      process.exit has been called (index.js)                   *)
(* A callback of the process runs as a call chain on a caller p; the cb    *)
(* field of the frame names the AppManager callback that awaits the        *)
(* LockManager call and resumes when it is done.                           *)

CONNECTION_ATTEMPT_COOLDOWN == 30000
CONFLICT_RECENT == 120000

(* AppManager constructor, lines 35-47.  lastConnectionAttemptTime is 0,   *)
(* that is, longer ago than the cooldown at any Date.now().  The field     *)
(* reached is the history of the calls of line 269: the times at which     *)
(* LockManager.acquireExecutionLock was called.  The field active counts   *)
(* the intervals that were set and not cleared, per interval field.        *)
AppInit ==
  [shutdown |-> "no", masterHb |-> FALSE, execHb |-> FALSE, lockCheck |-> FALSE,
   active |-> [masterHb |-> 0, execHb |-> 0, lockCheck |-> 0],
   timers |-> {}, bot |-> "none", lastAttempt |-> 0 - CONNECTION_ATTEMPT_COOLDOWN,
   connected |-> TRUE, finished |-> FALSE, exited |-> FALSE,
   botConflict |-> NoConflict, reached |-> <<>>]

(* A start that sets a new interval without clearing the one it replaces. *)
StartInterval_NoClear(a, k) == [a EXCEPT ![k] = TRUE, !.active[k] = @ + 1]

(* startMasterLockHeartbeat, startExecutionLockHeartbeat, startLockCheck   *)
(* (lines 303-308, 333-338, 384-389): clearInterval of the handle the      *)
(* field holds, then the field holds the handle of a new interval          *)
StartInterval(a, k) == [a EXCEPT ![k] = TRUE, !.active[k] = IF a[k] THEN @ ELSE @ + 1]

(* clearInterval(this.field); this.field = null (lines 316-317, 350-351,   *)
(* 551-564)                                                                *)
ClearInterval(a, k) == [a EXCEPT ![k] = FALSE, !.active[k] = IF a[k] THEN @ - 1 ELSE @]
ClearIntervals(a) ==
  ClearInterval(ClearInterval(ClearInterval(a, "masterHb"), "execHb"), "lockCheck")

WithCb(f, c) == [f EXCEPT !.cb = c]
Schedule(a, t) == [a EXCEPT !.timers = @ \cup {t}]
Fired(a, t) == [a EXCEPT !.timers = @ \ {t}]
Resumes(p, c) == Frame(p).pc = "done" /\ Frame(p).cb = c

(* the callback goes on with frame f and fields a *)
Continue(p, i, f, a) ==
  /\ call' = [call EXCEPT ![p] = f]
  /\ app' = [app EXCEPT ![i] = a]

(* AppManager.acquireMasterLock up to its await (lines 215-219) *)
MasterEntry(a, i) ==
  IF a.shutdown # "no"
  THEN [f |-> Idle, a |-> a]
  ELSE [f |-> WithCb(ProbeCall(i, "acquireMasterLock"), "acquireMasterLock"), a |-> a]

(* An acquireExecutionLock that does not record the time of its attempt. *)
ExecutionEntry_NotRecorded(a, i) ==
  IF a.shutdown # "no"
  THEN [f |-> Idle, a |-> a]
  ELSE IF now - a.lastAttempt < CONNECTION_ATTEMPT_COOLDOWN
  THEN [f |-> Idle, a |-> Schedule(a, "acquireExecutionLock")]
  ELSE [f |-> WithCb(ProbeCall(i, "acquireExecutionLock"), "acquireExecutionLock"),
        a |-> [a EXCEPT !.reached = Append(@, now)]]

(* AppManager.acquireExecutionLock up to its await (lines 248-269): the    *)
(* cooldown between attempts                                               *)
ExecutionEntry(a, i) ==
  IF a.shutdown # "no"
  THEN [f |-> Idle, a |-> a]
  ELSE IF now - a.lastAttempt < CONNECTION_ATTEMPT_COOLDOWN
  THEN [f |-> Idle, a |-> Schedule(a, "acquireExecutionLock")]
  ELSE [f |-> WithCb(ProbeCall(i, "acquireExecutionLock"), "acquireExecutionLock"),
        a |-> [a EXCEPT !.lastAttempt = now, !.reached = Append(@, now)]]

(* BotManager.startBot up to its await (part_002 lines 36-46).  On a closed *)
(* connection the store calls of the probe throw, the probe returns false  *)
(* (part_001 lines 975-979) and startBot schedules its retry (line 50).    *)
BotEntry(a, i) ==
  IF a.bot # "none"
  THEN [f |-> Idle, a |-> a]
  ELSE IF ~a.connected
  THEN [f |-> Idle, a |-> Schedule(a, "botRetry")]
  ELSE [f |-> WithCb(ProbeCall(i, "testTelegramConnection"), "startBot"),
        a |-> [a EXCEPT !.bot = "starting"]]

(* startInitializationSequence, lines 150-159: after the start-up delay,   *)
(* checkGlobalConnectionState begins with cleanupExpiredTaskLocks          *)
StartInitializationSequence(p, i) ==
  /\ Frame(p).op = "idle"
  /\ "startup" \in app[i].timers
  /\ Continue(p, i, WithCb(SweepCall(i), "startInitializationSequence"),
              Fired(app[i], "startup"))
  /\ UNCHANGED storeVars

(* checkGlobalConnectionState, lines 183-203, and lines 160-166: with a    *)
(* live execution lock of another instance only, wait before going on      *)
ResumeInitialization(p) ==
  LET i == InstanceOf(p)
      canProceed == \/ LiveLocks(EXECUTION) = {}
                    \/ \E r \in LiveLocks(EXECUTION) : r.instance_id = i
      e == MasterEntry(app[i], i)
  IN
  /\ Resumes(p, "startInitializationSequence")
  /\ IF canProceed
     THEN Continue(p, i, e.f, e.a)
     ELSE Continue(p, i, Idle, Schedule(app[i], "acquireMasterLock"))
  /\ UNCHANGED storeVars

(* a pending setTimeout(() => this.acquireMasterLock(), ...) fires *)
AcquireMasterTimer(p, i) ==
  LET e == MasterEntry(Fired(app[i], "acquireMasterLock"), i) IN
  /\ Frame(p).op = "idle"
  /\ "acquireMasterLock" \in app[i].timers
  /\ Continue(p, i, e.f, e.a)
  /\ UNCHANGED storeVars

(* AppManager.acquireMasterLock, lines 221-234 *)
ResumeAcquireMaster(p) ==
  LET i == InstanceOf(p)
      e == ExecutionEntry(StartInterval(app[i], "masterHb"), i)
  IN
  /\ Resumes(p, "acquireMasterLock")
  /\ IF Frame(p).res = "true"
     THEN Continue(p, i, e.f, e.a)
     ELSE Continue(p, i, Idle, Schedule(app[i], "acquireMasterLock"))
  /\ UNCHANGED storeVars

(* a pending setTimeout(() => this.acquireExecutionLock(), ...) fires *)
AcquireExecutionTimer(p, i) ==
  LET e == ExecutionEntry(Fired(app[i], "acquireExecutionLock"), i) IN
  /\ Frame(p).op = "idle"
  /\ "acquireExecutionLock" \in app[i].timers
  /\ Continue(p, i, e.f, e.a)
  /\ UNCHANGED storeVars

(* AppManager.acquireExecutionLock, lines 271-290 *)
ResumeAcquireExecution(p) ==
  LET i == InstanceOf(p) IN
  /\ Resumes(p, "acquireExecutionLock")
  /\ IF Frame(p).res = "true"
     THEN Continue(p, i, Idle,
            Schedule(StartInterval(StartInterval(app[i], "execHb"), "lockCheck"),
                     "startBot"))
     ELSE Continue(p, i, Idle, Schedule(app[i], "acquireExecutionLock"))
  /\ UNCHANGED storeVars

(* the master heartbeat interval fires, lines 308-312 *)
MasterHeartbeatTick(p, i) ==
  /\ Frame(p).op = "idle"
  /\ app[i].masterHb
  /\ app[i].shutdown = "no"
  /\ Continue(p, i, WithCb(MasterHeartbeatCall(i), "masterHeartbeat"), app[i])
  /\ UNCHANGED storeVars

(* lines 314-323: on a falsy result the interval is cleared and the master *)
(* lock is acquired again                                                   *)
ResumeMasterHeartbeat(p) ==
  LET i == InstanceOf(p)
      a == ClearInterval(app[i], "masterHb")
  IN
  /\ Resumes(p, "masterHeartbeat")
  /\ IF Frame(p).res = "true"
     THEN Continue(p, i, Idle, app[i])
     ELSE Continue(p, i, Idle,
            IF a.shutdown = "no" THEN Schedule(a, "acquireMasterLock") ELSE a)
  /\ UNCHANGED storeVars

(* the execution heartbeat interval fires, lines 338-343; its first tick    *)
(* (10 s) comes after the start timer (5 s) set together with it            *)
ExecutionHeartbeatTick(p, i) ==
  /\ Frame(p).op = "idle"
  /\ app[i].execHb
  /\ "startBot" \notin app[i].timers
  /\ app[i].shutdown = "no"
  /\ Continue(p, i, WithCb(TestSweepCall(i), "executionHeartbeat"), app[i])
  /\ UNCHANGED storeVars

(* line 345: updateExecutionLockHeartbeat after cleanupTelegramTestLocks *)
ResumeExecutionSweep(p) ==
  LET i == InstanceOf(p) IN
  /\ Resumes(p, "executionHeartbeat")
  /\ Frame(p).op = "cleanupTelegramTestLocks"
  /\ Continue(p, i, WithCb(ExecutionHeartbeatCall(i), "executionHeartbeat"), app[i])
  /\ UNCHANGED storeVars

(* lines 347-374: on a falsy result the interval is cleared, a running bot *)
(* is stopped and the re-acquisition is scheduled                          *)
ResumeExecutionHeartbeat(p) ==
  LET i == InstanceOf(p)
      a == [ClearInterval(app[i], "execHb") EXCEPT
                          !.bot = IF @ = "running" THEN "none" ELSE @]
  IN
  /\ Resumes(p, "executionHeartbeat")
  /\ Frame(p).op = "updateExecutionLockHeartbeat"
  /\ IF Frame(p).res = "true"
     THEN Continue(p, i, Idle, app[i])
     ELSE Continue(p, i, Idle, Schedule(a, "reacquire"))
  /\ UNCHANGED storeVars

(* lines 365-368: the timer set after a failed execution heartbeat fires *)
ReacquireTimer(p, i) ==
  LET a == Fired(app[i], "reacquire") IN
  /\ Frame(p).op = "idle"
  /\ "reacquire" \in app[i].timers
  /\ IF a.shutdown = "no"
     THEN Continue(p, i, WithCb(TestSweepCall(i), "reacquire"), a)
     ELSE Continue(p, i, Idle, a)
  /\ UNCHANGED storeVars

(* line 371: setTimeout(() => this.acquireExecutionLock(), ...) *)
ResumeReacquire(p) ==
  LET i == InstanceOf(p) IN
  /\ Resumes(p, "reacquire")
  /\ Continue(p, i, Idle, Schedule(app[i], "acquireExecutionLock"))
  /\ UNCHANGED storeVars

(* the lock check interval fires, lines 389-400; its first tick (30 s)      *)
(* comes after the start timer (5 s) set together with it                   *)
LockCheckTick(p, i) ==
  /\ Frame(p).op = "idle"
  /\ app[i].lockCheck
  /\ "startBot" \notin app[i].timers
  /\ app[i].shutdown = "no"
  /\ Continue(p, i, WithCb(SweepCall(i), "lockCheck"), app[i])
  /\ UNCHANGED storeVars

(* LockManager.checkForInstanceConflicts, lines 1249-1297 *)
NoInstanceConflicts(i) ==
  LET masterLock == OwnLocks(MASTER, i)
      executionLock == OwnLocks(EXECUTION, i)
      otherActiveLocks == {r \in LiveLocks(EXECUTION) : r.instance_id # i}
  IN
  IF /\ executionLock # {}
     /\ otherActiveLocks # {}
     /\ lmConflict[i].detected
     /\ lmConflict[i].time # -1
     /\ now - lmConflict[i].time < CONFLICT_RECENT
  THEN FALSE
  ELSE masterLock # {} /\ executionLock # {}

(* what the reads of checkForInstanceConflicts can do: succeed, or throw *)
StoreOutcomes == {"ok"} \cup (IF env.storeErrors < MaxStoreErrors THEN {"error"} ELSE {})

(* checkForInstanceConflicts with its catch block (lines 1293-1296): false *)
(* when a read throws                                                      *)
CheckForInstanceConflicts(i, out) == out = "ok" /\ NoInstanceConflicts(i)

(* performShutdown up to its first await, lines 532-542, called by the     *)
(* callback c: nothing is done when a shutdown has been started before;     *)
(* otherwise isShuttingDown is set and the sequence begins                  *)
PerformShutdown_Unguarded(a, i, reason, c) ==
  [f |-> WithCb(NewCall("performShutdown", "sd_stop", i, "none", 0, 0), c),
   a |-> [a EXCEPT !.shutdown = reason]]

PerformShutdown(a, i, reason, c) ==
  IF a.shutdown # "no"
  THEN [f |-> WithCb([NewCall("performShutdown", "done", i, "none", 0, 0)
                        EXCEPT !.res = "undefined"], c),
        a |-> a]
  ELSE [f |-> WithCb(NewCall("performShutdown", "sd_stop", i, "none", 0, 0), c),
        a |-> [a EXCEPT !.shutdown = reason]]

(* lines 403-413: checkLocalLocks recreates a missing or foreign lock file; *)
(* checkForInstanceConflicts; on a conflict performShutdown (lines 532-536) *)
ResumeLockCheck(p) ==
  LET i == InstanceOf(p) IN
  /\ Resumes(p, "lockCheck")
  /\ lockFile' = [lockFile EXCEPT ![i] = i]
  /\ \E out \in StoreOutcomes :
       /\ env' = IF out = "ok" THEN env ELSE [env EXCEPT !.storeErrors = @ + 1]
       /\ IF ~CheckForInstanceConflicts(i, out) /\ app[i].shutdown = "no"
          THEN LET e == PerformShutdown(app[i], i, "CONFLICT_AVOIDANCE", "performShutdown")
               IN Continue(p, i, e.f, e.a)
          ELSE Continue(p, i, Idle, app[i])
  /\ UNCHANGED <<now, locks, taskLocks, lmConflict>>

(* performShutdown, lines 544-580: the intervals are cleared, the bot is   *)
(* stopped, then releaseAllLocks.  stopBot and emergencyReleaseTelegram    *)
(* stop a bot that exists (part_002 line 'if (!this.bot) return true' and  *)
(* lines 358-366): a start in progress, with no bot yet, stays in progress *)
ShutdownStop(p) ==
  LET i == InstanceOf(p) IN
  /\ Frame(p).pc = "sd_stop"
  /\ Continue(p, i, WithCb(ReleaseCall(i), Frame(p).cb),
       [ClearIntervals(app[i]) EXCEPT
                      !.bot = IF @ = "starting" THEN "starting" ELSE "none"])
  /\ UNCHANGED storeVars

(* the callbacks that call performShutdown: the lock check (line 411) and   *)
(* the handlers of index.js (part_003 lines 30-59)                          *)
ShutdownCallers == {"performShutdown", "signalHandler"}

(* performShutdown, lines 582-594, after releaseAllLocks has returned       *)
(* (true or false): the connection is closed, or close() throws and the     *)
(* catch block returns false.  The lock check ends here; a handler of       *)
(* index.js goes on.                                                        *)
ResumeShutdown(p) ==
  LET i == InstanceOf(p)
      f == IF Frame(p).cb = "performShutdown" THEN Idle
           ELSE WithCb(NewCall("performShutdown", "done", i, "none", 0, 0), Frame(p).cb)
  IN
  /\ Frame(p).pc = "done"
  /\ Frame(p).op = "releaseAllLocks"
  /\ Frame(p).cb \in ShutdownCallers
  /\ \E out \in StoreOutcomes :
       /\ env' = IF out = "ok" THEN env ELSE [env EXCEPT !.storeErrors = @ + 1]
       /\ Continue(p, i, [f EXCEPT !.res = IF out = "ok" THEN "true" ELSE "false"],
            [app[i] EXCEPT !.connected = (out # "ok"), !.finished = TRUE])
  /\ UNCHANGED <<now, locks, taskLocks, lmConflict, lockFile>>

(* index.js, part_003 lines 30-59: SIGINT, SIGTERM, an uncaught exception   *)
(* or an unhandled rejection; the handler awaits performShutdown(reason)    *)
SignalReasons == {"SIGINT", "SIGTERM", "UNCAUGHT_EXCEPTION"}

Signal(p, i) ==
  /\ Frame(p).op = "idle"
  /\ ~app[i].exited
  /\ \E reason \in SignalReasons :
       LET e == PerformShutdown(app[i], i, reason, "signalHandler")
       IN Continue(p, i, e.f, e.a)
  /\ UNCHANGED storeVars

(* process.exit, part_003 lines 33, 39, 49, 58: the process ends, with its  *)
(* timers and with every callback that was still awaiting                   *)
ProcessExit(p) ==
  LET i == InstanceOf(p) IN
  /\ Resumes(p, "signalHandler")
  /\ Frame(p).op = "performShutdown"
  /\ call' = [q \in Procs |-> IF call[q].inst = i THEN Idle ELSE call[q]]
  /\ app' = [app EXCEPT ![i] =
               [ClearIntervals(@) EXCEPT
                         !.active = AppInit.active,
                         !.timers = {}, !.bot = "none", !.connected = FALSE,
                         !.exited = TRUE]]
  /\ UNCHANGED storeVars

(* the timer of AppManager.acquireExecutionLock (lines 279-282) fires:     *)
(* AppManager.startBot, BotManager.startBot                                *)
StartBotTimer(p, i) ==
  LET e == BotEntry(Fired(app[i], "startBot"), i) IN
  /\ Frame(p).op = "idle"
  /\ "startBot" \in app[i].timers
  /\ Continue(p, i, e.f, e.a)
  /\ UNCHANGED storeVars

(* a retry timer of BotManager fires (part_002 lines 50, 150-153, 174-177, *)
(* 199-202): this.startBot()                                               *)
BotRetryTimer(p, i) ==
  LET e == BotEntry(Fired(app[i], "botRetry"), i) IN
  /\ Frame(p).op = "idle"
  /\ "botRetry" \in app[i].timers
  /\ Continue(p, i, e.f, e.a)
  /\ UNCHANGED storeVars

(* BotManager.startBot, part_002 lines 47-115: after a failed probe a      *)
(* retry is scheduled; otherwise the bot is created and polls, unless      *)
(* getMe() throws and the bot is stopped again                             *)
ResumeStartBot(p) ==
  LET i == InstanceOf(p) IN
  /\ Resumes(p, "startBot")
  /\ IF Frame(p).res = "true"
     THEN \E out \in ChannelOutcomes \ {"conflict"} :
            /\ Continue(p, i, Idle,
                 [app[i] EXCEPT !.bot = IF out = "ok" THEN "running" ELSE "none",
                                !.botConflict.detected = IF out = "ok" THEN FALSE ELSE @])
            /\ env' = IF out = "ok" THEN env ELSE [env EXCEPT !.failures = @ + 1]
     ELSE /\ Continue(p, i, Idle, Schedule([app[i] EXCEPT !.bot = "none"], "botRetry"))
          /\ env' = env
  /\ UNCHANGED <<now, locks, taskLocks, lmConflict, lockFile>>

(* BotManager.setupErrorHandlers, part_002 lines 125-205: on a polling     *)
(* error the bot is stopped and a restart is scheduled; a 409 Conflict     *)
(* sets BotManager's own telegramConflictDetected and                      *)
(* lastTelegramConflictTime (lines 131-132)                                *)
PollingError(i) ==
  /\ app[i].bot = "running"
  /\ env.pollingErrors < MaxPollingErrors
  /\ \E out \in {"conflict", "error"} :
       app' = [app EXCEPT ![i] =
                 Schedule([@ EXCEPT !.bot = "none",
                                    !.botConflict = IF out = "conflict"
                                                    THEN [detected |-> TRUE, time |-> now]
                                                    ELSE @],
                          "botRetry")]
  /\ env' = [env EXCEPT !.pollingErrors = @ + 1]
  /\ UNCHANGED <<now, locks, taskLocks, call, lmConflict, lockFile>>

(* The store is shared with processes that are not in the model: the lease *)
(* rows of an instance whose heartbeats stalled for longer than            *)
(* GLOBAL_LOCK_TIMEOUT are removed by the deleteMany of another process's  *)
(* acquireMasterLock (lines 1029-1031).                                    *)
LeaseReclaimed(i, nm) ==
  /\ OwnLocks(nm, i) # {}
  /\ env.reclaims < MaxReclaims
  /\ locks' = locks \ OwnLocks(nm, i)
  /\ env' = [env EXCEPT !.reclaims = @ + 1]
  /\ UNCHANGED <<now, taskLocks, call, lmConflict, lockFile, app>>

(* the awaited call returns to a caller outside the model *)
Return(p) ==
  /\ Frame(p).pc = "done"
  /\ Frame(p).cb = "none"
  /\ call' = [call EXCEPT ![p] = Idle]
  /\ UNCHANGED <<now, locks, taskLocks, lmVars>>

Tick ==
  /\ now < MaxTicks * TickMs
  /\ now' = now + TickMs
  /\ UNCHANGED <<locks, taskLocks, call, lmVars>>

----------------------------------------------------------------------------
(* Rows a crashed earlier process can have left in TaskLock *)
DebrisAges == {4 * TickMs, 7 * TickMs}
DebrisTaskRows ==
  {TaskRow(t, 0, Old, 0 - age, ttl - age) : t \in TaskNames, age \in DebrisAges, ttl \in TaskTTLs}

InitTask ==
  /\ now = 0
  /\ locks = {}
  /\ \E d \in {{}} \cup {{r} : r \in DebrisTaskRows} : taskLocks = d
  /\ call = [p \in Procs |-> Idle]
  /\ lmConflict = [i \in Instances |-> NoConflict]
  /\ lockFile = [i \in Instances |-> "none"]
  /\ app = [i \in Instances |-> AppInit]
  /\ env = EnvInit

NextTask ==
  \/ \E p \in Procs, i \in Instances, t \in TaskNames, ttl \in TaskTTLs :
        ExecuteWithLock(p, i, t, ttl)
  \/ \E p \in Procs, i \in Instances : CleanupExpiredTaskLocks(p, i)
  \/ \E p \in Procs, i \in Instances : CleanupTelegramTestLocks(p, i)
  \/ \E p \in Procs : CeAll(p)
  \/ \E p \in Procs : CtExpired(p)
  \/ \E p \in Procs : CtOld(p)
  \/ \E p \in Procs : TlPre(p)
  \/ \E p \in Procs : TlFindNone(p)
  \/ \E p \in Procs : TlFindExisting(p)
  \/ \E p \in Procs : TlSave(p)
  \/ \E p \in Procs : FnEnds(p)
  \/ \E p \in Procs : TlRelease(p)
  \/ \E p \in Procs : Return(p)
  \/ Tick

SpecTask == InitTask /\ [][NextTask]_vars

----------------------------------------------------------------------------
(* Leases: the LockManager calls of two instances, interleaved *)

(* A lease row left by a crashed process, last refreshed `age` ms before   *)
(* the run starts: just inside the timeout, exactly at it, just past it.   *)
DebrisLeaseAges == {GLOBAL_LOCK_TIMEOUT - TickMs, GLOBAL_LOCK_TIMEOUT, GLOBAL_LOCK_TIMEOUT + TickMs}
DebrisLeaseRows == {LockRow(nm, Old, 0 - age, 1) : nm \in LeaseNames, age \in DebrisLeaseAges}

(* each caller is the event loop of one process *)
Home(p) == IF p = "p1" THEN "a" ELSE "b"

InitLease ==
  /\ now = 0
  /\ \E d \in {{}} \cup {{r} : r \in DebrisLeaseRows} : locks = d
  /\ taskLocks = {}
  /\ call = [p \in Procs |-> Idle]
  /\ lmConflict = [i \in Instances |-> NoConflict]
  /\ lockFile = [i \in Instances |-> "none"]
  /\ app = [i \in Instances |-> AppInit]
  /\ env = EnvInit

NextLease ==
  \/ \E p \in Procs : AcquireMasterLock(p, Home(p))
  \/ \E p \in Procs : AcquireExecutionLock(p, Home(p))
  \/ \E p \in Procs : ReleaseAllLocks(p, Home(p))
  \/ \E p \in Procs : TestTelegramConnection(p)
  \/ \E p \in Procs : MExecFind(p)
  \/ \E p \in Procs : MStaleDel(p)
  \/ \E p \in Procs : MFind(p)
  \/ \E p \in Procs : EFind(p)
  \/ \E p \in Procs : LRefresh(p)
  \/ \E p \in Procs : MDel(p)
  \/ \E p \in Procs : EDel(p)
  \/ \E p \in Procs : MInsert(p)
  \/ \E p \in Procs : EInsert(p)
  \/ \E p \in Procs : RTasks(p)
  \/ \E p \in Procs : RLocks(p)
  \/ \E p \in Procs : Return(p)
  \/ Tick

SpecLease == InitLease /\ [][NextLease]_vars

----------------------------------------------------------------------------
(* Heartbeats: the processes hold leases (or believe they do) and their    *)
(* heartbeat timers fire, a tick possibly before the previous tick of the  *)
(* same process has completed; a process may also release everything.      *)

(* the leases present when the timers start: any of the four rows *)
HeldLeaseRows == {LockRow(nm, i, 0, 1) : nm \in LeaseNames, i \in Instances}

InitBeat ==
  /\ now = 0
  /\ locks \in SUBSET HeldLeaseRows
  /\ taskLocks = {}
  /\ call = [p \in Procs |-> Idle]
  /\ lmConflict = [i \in Instances |-> NoConflict]
  /\ lockFile = [i \in Instances |->
                   IF LockRow(EXECUTION, i, 0, 1) \in locks THEN i ELSE "none"]
  /\ app = [i \in Instances |-> AppInit]
  /\ env = EnvInit

NextBeat ==
  \/ \E p \in Procs, i \in Instances : UpdateExecutionLockHeartbeat(p, i)
  \/ \E p \in Procs, i \in Instances : UpdateMasterLockHeartbeat(p, i)
  \/ \E p \in Procs, i \in Instances : ReleaseAllLocks(p, i)
  \/ \E p \in Procs : TlFindNone(p)
  \/ \E p \in Procs : TlFindExisting(p)
  \/ \E p \in Procs : TlSave(p)
  \/ \E p \in Procs : HbFind(p)
  \/ \E p \in Procs : HbSave(p)
  \/ \E p \in Procs : TlRelease(p)
  \/ \E p \in Procs : RTasks(p)
  \/ \E p \in Procs : RLocks(p)
  \/ \E p \in Procs : Return(p)
  \/ Tick

SpecBeat == InitBeat /\ [][NextBeat]_vars

----------------------------------------------------------------------------
(* Life cycle of one instance: its timer callbacks run one after the other *)
(* on the event loop of its process (caller Main), while the environment    *)
(* acts on the store and on the Telegram channel.                           *)

MaxAppTicks == 1
AppTickMs == 30 * 1000

Main == "p1"

AppTick ==
  /\ now < MaxAppTicks * AppTickMs
  /\ now' = now + AppTickMs
  /\ UNCHANGED <<locks, taskLocks, call, lmVars>>

InitApp ==
  /\ now = 0
  /\ \E d \in {{}} \cup {{r} : r \in DebrisLeaseRows} : locks = d
  /\ taskLocks = {}
  /\ call = [p \in Procs |-> Idle]
  /\ lmConflict = [i \in Instances |-> NoConflict]
  /\ lockFile = [i \in Instances |-> "none"]
  /\ app = [i \in Instances |->
              IF i = Home(Main) THEN Schedule(AppInit, "startup") ELSE AppInit]
  /\ env = EnvInit

(* the timers and intervals of instance i start a callback on caller p *)
TimerFires(p, i) ==
  \/ StartInitializationSequence(p, i)
  \/ AcquireMasterTimer(p, i)
  \/ AcquireExecutionTimer(p, i)
  \/ MasterHeartbeatTick(p, i)
  \/ ExecutionHeartbeatTick(p, i)
  \/ ReacquireTimer(p, i)
  \/ LockCheckTick(p, i)
  \/ StartBotTimer(p, i)

(* a callback of caller p resumes after its awaited LockManager call *)
CallbackResumes(p) ==
  \/ ResumeInitialization(p)
  \/ ResumeAcquireMaster(p)
  \/ ResumeAcquireExecution(p)
  \/ ResumeMasterHeartbeat(p)
  \/ ResumeExecutionSweep(p)
  \/ ResumeExecutionHeartbeat(p)
  \/ ResumeReacquire(p)
  \/ ResumeLockCheck(p)
  \/ ResumeStartBot(p)

(* one step of a LockManager call in progress on caller p (the refusal of a *)
(* task lock, TlFindExisting, needs a second caller and is listed apart)    *)
LockManagerStep(p) ==
  \/ CeAll(p)
  \/ CtExpired(p)
  \/ CtOld(p)
  \/ TestTelegramConnection(p)
  \/ MExecFind(p)
  \/ MStaleDel(p)
  \/ MFind(p)
  \/ EFind(p)
  \/ LRefresh(p)
  \/ MDel(p)
  \/ EDel(p)
  \/ MInsert(p)
  \/ EInsert(p)
  \/ TlFindNone(p)
  \/ TlSave(p)
  \/ HbFind(p)
  \/ HbSave(p)
  \/ TlRelease(p)

NextApp ==
  \/ TimerFires(Main, Home(Main))
  \/ BotRetryTimer(Main, Home(Main))
  \/ CallbackResumes(Main)
  \/ ShutdownStop(Main)
  \/ ResumeShutdown(Main)
  \/ LockManagerStep(Main)
  \/ RTasks(Main)
  \/ RLocks(Main)
  \/ StoreError(Main)
  \/ PollingError(Home(Main))
  \/ \E nm \in LeaseNames : LeaseReclaimed(Home(Main), nm)
  \/ AppTick

SpecApp == InitApp /\ [][NextApp]_vars

----------------------------------------------------------------------------
(* Overlapping heartbeats: a heartbeat interval of the instance fires on a  *)
(* second caller while a callback of the same process is still awaiting.    *)
(* The environment does not interfere: the lease rows stay in the store, so *)
(* the lock check finds no conflict and performShutdown is not entered.     *)

Side == "p2"

EnvQuiet ==
  [failures |-> MaxChannelFailures, reclaims |-> MaxReclaims,
   pollingErrors |-> MaxPollingErrors, storeErrors |-> MaxStoreErrors]

InitOverlap ==
  /\ now = 0
  /\ locks = {}
  /\ taskLocks = {}
  /\ call = [p \in Procs |-> Idle]
  /\ lmConflict = [i \in Instances |-> NoConflict]
  /\ lockFile = [i \in Instances |-> "none"]
  /\ app = [i \in Instances |->
              IF i = Home(Main) THEN Schedule(AppInit, "startup") ELSE AppInit]
  /\ env = EnvQuiet

NextOverlap ==
  \/ TimerFires(Main, Home(Main))
  \/ MasterHeartbeatTick(Side, Home(Main))
  \/ ExecutionHeartbeatTick(Side, Home(Main))
  \/ \E p \in Procs : CallbackResumes(p)
  \/ \E p \in Procs : LockManagerStep(p)
  \/ \E p \in Procs : TlFindExisting(p)
  \/ AppTick

SpecOverlap == InitOverlap /\ [][NextOverlap]_vars

----------------------------------------------------------------------------
(* Two instances started together, each on the event loop of its process,   *)
(* during the first CONNECTION_ATTEMPT_COOLDOWN after the start (the clock  *)
(* stays at 0).  The lease rows of both instances stay in the store, so the *)
(* lock check finds no conflict and performShutdown is not entered.         *)

InitRace ==
  /\ now = 0
  /\ locks = {}
  /\ taskLocks = {}
  /\ call = [p \in Procs |-> Idle]
  /\ lmConflict = [i \in Instances |-> NoConflict]
  /\ lockFile = [i \in Instances |-> "none"]
  /\ app = [i \in Instances |-> Schedule(AppInit, "startup")]
  /\ env = EnvQuiet

NextRace ==
  \/ \E p \in Procs : TimerFires(p, Home(p))
  \/ \E p \in Procs : CallbackResumes(p)
  \/ \E p \in Procs : LockManagerStep(p)
  \/ \E p \in Procs : TlFindExisting(p)

SpecRace == InitRace /\ [][NextRace]_vars

----------------------------------------------------------------------------
(* Termination: one instance whose life cycle runs on the event loop (Main) *)
(* while a handler of index.js runs on a second call chain.  The only       *)
(* interference of the environment is a store operation that throws; the    *)
(* clock stays at 0 (the shutdown sequence sets no timer).                   *)

EnvFaulty == [EnvQuiet EXCEPT !.storeErrors = 0]

InitSignal ==
  /\ now = 0
  /\ locks = {}
  /\ taskLocks = {}
  /\ call = [p \in Procs |-> Idle]
  /\ lmConflict = [i \in Instances |-> NoConflict]
  /\ lockFile = [i \in Instances |-> "none"]
  /\ app = [i \in Instances |->
              IF i = Home(Main) THEN Schedule(AppInit, "startup") ELSE AppInit]
  /\ env = EnvFaulty

(* a step of the shutdown sequence, or of the handler that awaits it *)
ShutdownStep(p) ==
  \/ ShutdownStop(p)
  \/ RTasks(p)
  \/ RLocks(p)
  \/ ResumeShutdown(p)
  \/ ProcessExit(p)

NextSignal ==
  \/ TimerFires(Main, Home(Main))
  \/ BotRetryTimer(Main, Home(Main))
  \/ CallbackResumes(Main)
  \/ LockManagerStep(Main)
  \/ \E p \in Procs : Signal(p, Home(Main))
  \/ \E p \in Procs : ShutdownStep(p)
  \/ \E p \in Procs : StoreError(p)

SpecSignal == InitSignal /\ [][NextSignal]_vars

(* Node runs a continuation whose awaited operation has completed: the      *)
(* steps of a started shutdown sequence are taken eventually.               *)
FairSignal == SpecSignal /\ \A p \in Procs : WF_vars(ShutdownStep(p))

----------------------------------------------------------------------------
(* Termination when an awaited step of the shutdown sequence never          *)
(* completes.  performShutdown sets no timer and races its awaits against   *)
(* nothing (SHUTDOWN_TIMEOUT, line 19, is not read anywhere), so the call   *)
(* chain stays at that await.                                               *)

(* botManager.stopBot() (line 573, after the intervals were cleared) or     *)
(* mongoose.connection.close() (line 586) never settles                     *)
ShutdownHangs(p) ==
  LET i == InstanceOf(p) IN
  /\ \/ /\ Frame(p).pc = "sd_stop"
        /\ app' = [app EXCEPT ![i] = ClearIntervals(@)]
     \/ /\ Frame(p).pc = "done"
        /\ Frame(p).op = "releaseAllLocks"
        /\ Frame(p).cb \in ShutdownCallers
        /\ app' = app
  /\ call' = [call EXCEPT ![p].op = "performShutdown", ![p].pc = "hung"]
  /\ UNCHANGED storeVars

NextHang ==
  \/ NextSignal
  \/ \E p \in Procs : ShutdownHangs(p)

FairHang == InitSignal /\ [][NextHang]_vars /\ \A p \in Procs : WF_vars(ShutdownStep(p))

----------------------------------------------------------------------------
(* releaseAllLocks on its own: the store holds any of the lease rows of the *)
(* two instances and any of the heartbeat task locks a failed               *)
(* releaseTaskLock left behind (lines 787-790); the instances release,      *)
(* once or repeatedly.                                                      *)

LeftTaskRows ==
  {TaskRow(EXEC_HB, 1, i, 0, HEARTBEAT_LOCK_TIMEOUT) : i \in Instances}
  \cup {TaskRow(MASTER_HB, 1, i, 0, TASK_LOCK_TIMEOUT) : i \in Instances}

InitRelease ==
  /\ now = 0
  /\ locks \in SUBSET HeldLeaseRows
  /\ taskLocks \in SUBSET LeftTaskRows
  /\ call = [p \in Procs |-> Idle]
  /\ lmConflict = [i \in Instances |-> NoConflict]
  /\ lockFile = [i \in Instances |->
                   IF LockRow(EXECUTION, i, 0, 1) \in locks THEN i ELSE "none"]
  /\ app = [i \in Instances |-> AppInit]
  /\ env = EnvInit

NextRelease ==
  \/ \E p \in Procs, i \in Instances : ReleaseAllLocks(p, i)
  \/ \E p \in Procs : RTasks(p)
  \/ \E p \in Procs : RLocks(p)
  \/ \E p \in Procs : Return(p)

SpecRelease == InitRelease /\ [][NextRelease]_vars

----------------------------------------------------------------------------
(* The probe step by step: testTelegramConnection of two instances, each    *)
(* await a step of its own, interleaved with the emergency cleanup that     *)
(* LockManager.initialize runs at the start of a process (line 639) and     *)
(* with the sweeps.                                                         *)

MaxProbeTicks == 3
EMERGENCY_AGE == 300000

ProbeTick ==
  /\ now < MaxProbeTicks * TickMs
  /\ now' = now + TickMs
  /\ UNCHANGED <<locks, taskLocks, call, lmVars>>

(* testTelegramConnection up to its first await, lines 922-937: the         *)
(* back-off check, then acquireTaskLock('telegram_test', 20000)             *)
ProbeLockCall(i) ==
  IF InBackoff(i)
  THEN [NewCall("testTelegramConnection", "done", i, "none", 0, 0) EXCEPT !.res = "false"]
  ELSE NewCall("testTelegramConnection", AcquireEntry(TEST), i, TEST,
               TELEGRAM_TEST_TIMEOUT, FreshLockId(i, TEST))

BeginProbe(p, i) ==
  /\ Frame(p).op = "idle"
  /\ call' = [call EXCEPT ![p] = ProbeLockCall(i)]
  /\ UNCHANGED <<now, locks, taskLocks, lmVars>>

(* line 963: the awaited testBot.getMe() settles: it succeeds, fails with   *)
(* 409 Conflict, or fails with another error                                *)
GetMe(p) ==
  /\ Frame(p).pc = "getMe"
  /\ \E out \in ChannelOutcomes :
       /\ env' = IF out = "ok" THEN env ELSE [env EXCEPT !.failures = @ + 1]
       /\ call' = [call EXCEPT ![p].pc = "tt_settled", ![p].res = out]
  /\ UNCHANGED <<now, locks, taskLocks, lmConflict, lockFile, app>>

(* A catch block that records a conflict on every error of the channel. *)
ConflictAfter_AnyError(c, out, t) ==
  IF out = "ok" THEN [c EXCEPT !.detected = FALSE] ELSE [detected |-> TRUE, time |-> t]

(* telegramConflictDetected / lastTelegramConflictTime after the channel    *)
(* call: reset on success (line 966), set on 409 Conflict (lines 970-975),  *)
(* untouched on another error (lines 976-978)                               *)
ConflictAfter(c, out, t) ==
  IF out = "ok" THEN [c EXCEPT !.detected = FALSE]
  ELSE IF out = "conflict" THEN [detected |-> TRUE, time |-> t]
  ELSE c

(* lines 965-979: the result of the probe; the finally block (lines         *)
(* 980-990) then releases the probe lock                                    *)
ProbeSettled(p) ==
  /\ Frame(p).pc = "tt_settled"
  /\ lmConflict' = [lmConflict EXCEPT ![InstanceOf(p)] = ConflictAfter(@, Frame(p).res, now)]
  /\ call' = [call EXCEPT ![p].pc = "tl_release",
                           ![p].res = IF Frame(p).res = "ok" THEN "true" ELSE "false"]
  /\ UNCHANGED <<now, locks, taskLocks, lockFile, app, env>>

(* emergencyCleanupLocks, lines 887-916 *)
EmergencyCleanupLocks(p, i) ==
  /\ Frame(p).op = "idle"
  /\ call' = [call EXCEPT ![p] = NewCall("emergencyCleanupLocks", "ec_test", i, "none", 0, 0)]
  /\ UNCHANGED <<now, locks, taskLocks, lmVars>>

(* line 892: deleteMany({task_name: 'telegram_test'}), every probe lock *)
EcTest(p) ==
  /\ Frame(p).pc = "ec_test"
  /\ taskLocks' = {r \in taskLocks : r.task_name # TEST}
  /\ Goto(p, "ec_find")
  /\ UNCHANGED <<now, locks, lmVars>>

(* lines 896-898: find({instance_id: {$ne: this.instanceId}}); with no row *)
(* of another instance the cleanup ends (line 910)                         *)
EcFind(p) ==
  /\ Frame(p).pc = "ec_find"
  /\ IF \E r \in taskLocks : r.instance_id # InstanceOf(p)
     THEN Goto(p, "ec_old")
     ELSE Finish(p, "true")
  /\ UNCHANGED <<now, locks, taskLocks, lmVars>>

(* lines 902-906: the task locks of other instances older than 5 minutes *)
EcOld(p) ==
  /\ Frame(p).pc = "ec_old"
  /\ taskLocks' = {r \in taskLocks :
                     ~(r.instance_id # InstanceOf(p) /\ r.created_at < now - EMERGENCY_AGE)}
  /\ Finish(p, "true")
  /\ UNCHANGED <<now, locks, lmVars>>

InitProbe == InitTask

NextProbe ==
  \/ \E p \in Procs : BeginProbe(p, Home(p))
  \/ \E p \in Procs : EmergencyCleanupLocks(p, Home(p))
  \/ \E p \in Procs : CleanupExpiredTaskLocks(p, Home(p))
  \/ \E p \in Procs : TlPre(p)
  \/ \E p \in Procs : TlFindNone(p)
  \/ \E p \in Procs : TlFindExisting(p)
  \/ \E p \in Procs : TlSave(p)
  \/ \E p \in Procs : GetMe(p)
  \/ \E p \in Procs : ProbeSettled(p)
  \/ \E p \in Procs : TlRelease(p)
  \/ \E p \in Procs : EcTest(p)
  \/ \E p \in Procs : EcFind(p)
  \/ \E p \in Procs : EcOld(p)
  \/ \E p \in Procs : CeAll(p)
  \/ \E p \in Procs : CtExpired(p)
  \/ \E p \in Procs : CtOld(p)
  \/ \E p \in Procs : Return(p)
  \/ ProbeTick

SpecProbe == InitProbe /\ [][NextProbe]_vars

----------------------------------------------------------------------------
(* Claims on the task locks (SpecTask) *)

RunningFn(p, t) == Frame(p).pc = "fn" /\ Frame(p).task = t

(* C2: executeWithLock never has two invocations of the task function for  *)
(* the same taskName running at the same time.                             *)
C2_NoConcurrentTaskFunction ==
  \A t \in TaskNames : \A p, q \in Procs : (RunningFn(p, t) /\ RunningFn(q, t)) => p = q

(* this step ends an acquireTaskLock call of p: granted (the save) or refused *)
Granted(p) == Frame(p).pc = "tl_save" /\ call'[p].pc # "tl_save"
Refused(p) == Frame(p).pc = "tl_find" /\ call'[p].pc = "done"
SweepEnds(p) == Frame(p).pc = "ct_old" /\ call'[p].pc = "done"
             /\ Frame(p).op = "cleanupExpiredTaskLocks"
PastCeiling(r) == now' - r.created_at > TEST_LOCK_CLEANUP_AGE

----------------------------------------------------------------------------
(* Claims on the leases (SpecLease) *)

(* C1: the store never holds two live rows of the same lease name with     *)
(* different instance_id, whatever the interleaving of the acquire and     *)
(* release steps of the instances.                                         *)
C1_OneLiveHolderPerLease ==
  \A nm \in LeaseNames : \A r, q \in LiveLocks(nm) : r.instance_id = q.instance_id

(* C6: when an acquire of an instance has returned true, the row of the    *)
(* owner that stopped heartbeating is gone: only the new owner's row of    *)
(* that name remains, also when the old heartbeat is exactly 180 s old.    *)
C6_ReclaimRemovesOldRow ==
  \A p \in Procs :
    (Frame(p).op \in AcquireOps /\ Frame(p).pc = "done" /\ Frame(p).res = "true") =>
      \A r \in locks : r.name = LeaseOf(Frame(p).op) => r.instance_id # Old

----------------------------------------------------------------------------
(* Claims on the heartbeats (SpecBeat) *)

(* C4: a heartbeat call returns a falsy result only when the store holds   *)
(* no lease row of that name owned by the calling instance; with such a    *)
(* row it returns true whatever the state of the heartbeat task locks.     *)
C4_FalsyOnlyWithoutOwnRow ==
  \A p \in Procs :
    (Frame(p).op \in HeartbeatOps /\ Frame(p).pc = "done" /\ Frame(p).res # "true") =>
      OwnLocks(LeaseOf(Frame(p).op), InstanceOf(p)) = {}

----------------------------------------------------------------------------
(* Claims on the life cycle of one instance (SpecApp)                       *)

(* C3: an instance whose execution lease row was deleted by someone else    *)
(* ends up back in execution acquisition, not in shutdown: no step takes an *)
(* instance into shutdown while its execution lease row is missing.         *)
C3_LeaseLossIsNotShutdown ==
  [][\A i \in Instances :
       (app[i].shutdown = "no" /\ app'[i].shutdown # "no") =>
          OwnLocks(EXECUTION, i) # {}]_vars

(* C8: an instance that is not shutting down starts its Consumer only while *)
(* its execution heartbeat is running, that is, not after the execution     *)
(* heartbeat has failed and before acquireExecutionLock has succeeded       *)
(* again.                                                                   *)
C8_BotStartedOnlyWithExecutionLease ==
  [][\A i \in Instances :
       (app[i].bot # "running" /\ app'[i].bot = "running" /\ app[i].shutdown = "no") =>
          app[i].execHb]_vars

(* C9: acquireExecutionLock returns true (it inserts or refreshes the       *)
(* execution lease) only while the instance owns a live master lease.       *)
C9_MasterGatesExecution ==
  [][\A p \in Procs :
       (/\ Frame(p).op = "acquireExecutionLock"
        /\ Frame(p).pc # "done"
        /\ call'[p].pc = "done"
        /\ call'[p].res = "true") =>
          \E r \in OwnLocks(MASTER, InstanceOf(p)) : IsLive(r)]_vars

----------------------------------------------------------------------------
(* Claim on overlapping heartbeats (SpecOverlap)                            *)

(* C5: a heartbeat tick that cannot get its heartbeat task lock is only a   *)
(* skipped cycle: a heartbeat interval is cleared only when the instance    *)
(* no longer owns the lease row of that heartbeat.                          *)
C5_ContentionIsSkippedCycle ==
  [][\A i \in Instances :
       /\ (app[i].execHb /\ ~app'[i].execHb) => OwnLocks(EXECUTION, i) = {}
       /\ (app[i].masterHb /\ ~app'[i].masterHb) => OwnLocks(MASTER, i) = {}]_vars

----------------------------------------------------------------------------
(* Claim on two instances started together (SpecRace)                       *)

(* execution lease acquired (its heartbeat runs) and Consumer started *)
ACTIVE(i) == app[i].execHb /\ app[i].bot = "running" /\ app[i].shutdown = "no"

(* C10: of two instances that start in the same window, at most one is      *)
(* ACTIVE.                                                                  *)
C10_AtMostOneActive ==
  \A i, j \in Instances : (ACTIVE(i) /\ ACTIVE(j)) => i = j

----------------------------------------------------------------------------
(* Further claims on the life cycle of one instance (SpecApp)               *)

(* C11: the loss of a held lease is self-healing: an instance for which no  *)
(* channel conflict has been detected enters the shutdown sequence with     *)
(* reason CONFLICT_AVOIDANCE only while it owns both its master and its     *)
(* execution lease row; a missing row alone never causes the shutdown.      *)
C11_LeaseLossNeverShutsDown ==
  [][\A i \in Instances :
       (/\ app[i].shutdown = "no"
        /\ app'[i].shutdown = "CONFLICT_AVOIDANCE"
        /\ ~lmConflict[i].detected) =>
          (OwnLocks(MASTER, i) # {} /\ OwnLocks(EXECUTION, i) # {})]_vars

(* C12: a store error is never fatal: the instance enters the shutdown      *)
(* sequence for CONFLICT_AVOIDANCE only when the store shows a conflict or  *)
(* a missing lease row of its own, never because a store operation of the   *)
(* lock check (or of an acquire or a heartbeat) has thrown.                 *)
C12_StoreErrorNeverShutsDown ==
  [][\A i \in Instances :
       (app[i].shutdown = "no" /\ app'[i].shutdown = "CONFLICT_AVOIDANCE") =>
          ~NoInstanceConflicts(i)]_vars

----------------------------------------------------------------------------
(* Claims on the termination of an instance (SpecSignal, FairSignal)        *)

(* C13: once isShuttingDown is set, the instance inserts or refreshes no    *)
(* lease row and does not start its Consumer: every lease row of the        *)
(* instance after a step was there before it, and the bot does not become   *)
(* running.                                                                 *)
C13_NothingStartsAfterShutdown ==
  [][\A i \in Instances :
       app[i].shutdown # "no" =>
         /\ \A r \in locks' : r.instance_id = i => r \in locks
         /\ app'[i].bot = "running" => app[i].bot = "running"]_vars

(* this step begins a shutdown sequence of instance i *)
SequenceBegins(i) ==
  \E p \in Procs : /\ call'[p].pc = "sd_stop"
                    /\ call[p].pc # "sd_stop"
                    /\ call'[p].inst = i

(* C14: the shutdown sequence of an instance begins at most once, however   *)
(* many triggers call performShutdown (the flag is never reset and no       *)
(* sequence begins while it is set), and a sequence that has begun reaches  *)
(* its end: performShutdown returns, or the process has exited, whichever   *)
(* of its store operations throw.                                           *)
C14_ShutdownOnceAndEnds ==
  /\ [][\A i \in Instances :
          app[i].shutdown # "no" =>
            (app'[i].shutdown = app[i].shutdown /\ ~SequenceBegins(i))]_vars
  /\ \A i \in Instances :
       (app[i].shutdown # "no") ~> (app[i].finished \/ app[i].exited)

(* a second trigger found the shutdown begun, returned at once, and the     *)
(* sequence has ended although one of its steps failed: performShutdown     *)
(* returned false                                                           *)
C14_SecondTriggerAndFailedStep ==
  \E i \in Instances :
    /\ app[i].finished
    /\ \E p, q \in Procs :
         /\ Frame(p).inst = i /\ Frame(p).op = "performShutdown" /\ Frame(p).res = "false"
         /\ Frame(q).inst = i /\ Frame(q).op = "performShutdown" /\ Frame(q).res = "undefined"

(* releaseAllLocks of the shutdown sequence of instance i has returned *)
ReleaseCompleted(i) ==
  \/ app[i].finished
  \/ \E p \in Procs : /\ Frame(p).inst = i
                       /\ Frame(p).op = "releaseAllLocks"
                       /\ Frame(p).pc = "done"

(* C16: process.exit is called only after releaseAllLocks of the shutdown   *)
(* sequence has returned, also when the signal arrives while a shutdown     *)
(* begun by another trigger is in progress.                                 *)
C16_ExitAfterRelease ==
  [][\A i \in Instances :
       (~app[i].exited /\ app'[i].exited) => ReleaseCompleted(i)]_vars

(* C15: the steps of the shutdown are independently fault-tolerant: when    *)
(* the deletion of the instance's TaskLock rows fails, releaseAllLocks      *)
(* still deletes its lease rows and removes the local marker, so that when  *)
(* releaseAllLocks returns from a failed TaskLock deletion no lease row of  *)
(* the instance is in the store and the marker does not name it.            *)
C15_LeasesReleasedAfterFailedTaskDeletion ==
  [][\A p \in Procs :
       (/\ Frame(p).op = "releaseAllLocks"
        /\ Frame(p).pc = "r_tasks"
        /\ call'[p].op = "releaseAllLocks"
        /\ call'[p].pc = "done") =>
          /\ \A r \in locks' : r.instance_id # InstanceOf(p)
          /\ lockFile'[InstanceOf(p)] # InstanceOf(p)]_vars

(* a handler of index.js has been started for instance i and awaits *)
HandlerAwaits(i) ==
  \E p \in Procs : Frame(p).inst = i /\ Frame(p).cb = "signalHandler"

(* C17: after a termination signal the process eventually exits, also when  *)
(* a step of the shutdown sequence never completes.                         *)
C17_SignalLeadsToExit ==
  \A i \in Instances : HandlerAwaits(i) ~> app[i].exited

----------------------------------------------------------------------------
(* Claim on releaseAllLocks (SpecRelease)                                   *)

(* the store holds no row of instance i and the marker does not name it *)
Released(i) ==
  /\ \A r \in locks : r.instance_id # i
  /\ \A r \in taskLocks : r.instance_id # i
  /\ lockFile[i] # i

----------------------------------------------------------------------------
(* Claims on the probe (SpecProbe)                                          *)

(* this step is the call of testTelegramConnection by caller p *)
ProbeCalled(p) == Frame(p).op = "idle" /\ call'[p].op = "testTelegramConnection"

(* testTelegramConnection of instance i recorded a channel conflict less    *)
(* than 60 s ago                                                            *)
ConflictWithinMinute(i) ==
  /\ lmConflict[i].detected
  /\ lmConflict[i].time # -1
  /\ now - lmConflict[i].time < 60000

(* C19: a call of testTelegramConnection made less than 60 s after the      *)
(* instance's probe recorded a conflict returns false at once, with no      *)
(* channel call and no step on the telegram_test task lock; a call made     *)
(* once 60 s have passed goes on to take the task lock and probe.           *)
C19_ProbeBackoff ==
  [][\A p \in Procs :
       ProbeCalled(p) =>
         IF ConflictWithinMinute(call'[p].inst)
         THEN /\ call'[p].pc = "done"
              /\ call'[p].res = "false"
              /\ taskLocks' = taskLocks
              /\ env' = env
         ELSE call'[p].pc = "tl_pre"]_vars

(* a call made within the minute after the conflict recorded at time 0 was  *)
(* short-circuited (its frame has no task lock), and the clock has since    *)
(* reached 60 s                                                             *)
C19_ShortCircuitedCall ==
  \E p \in Procs :
    /\ Frame(p).op = "testTelegramConnection"
    /\ Frame(p).pc = "done"
    /\ Frame(p).task = "none"
    /\ lmConflict[InstanceOf(p)].time = 0
    /\ now = 3 * TickMs

(* caller p is inside the channel call of the probe, holding the probe lock *)
Probing(p) == Frame(p).op = "testTelegramConnection" /\ Frame(p).pc = "getMe"

(* C20: at most one instance at a time is inside the channel probe call.    *)
C20_OneProbeAtATime ==
  \A p, q \in Procs : (Probing(p) /\ Probing(q)) => InstanceOf(p) = InstanceOf(q)

(* this step ends the call of testTelegramConnection on caller p *)
ProbeReturns(p) ==
  /\ call'[p].op = "testTelegramConnection"
  /\ call'[p].pc = "done"
  /\ Frame(p).pc # "done"

----------------------------------------------------------------------------
(* Further claims on the leases (SpecLease)                                 *)

(* C22: when the probe reports failure (the channel call fails, the probe   *)
(* lock is refused, or the back-off short-circuits the probe), the acquire  *)
(* returns false in that step and the Lock collection is unchanged.         *)
C22_FailedProbeLeavesLeases ==
  [][\A p \in Procs :
       /\ (/\ Frame(p).op \in AcquireOps
           /\ Frame(p).pc = "probe"
           /\ call'[p] # call[p]
           /\ env' # env) =>
            (call'[p].pc = "done" /\ call'[p].res = "false" /\ locks' = locks)
       /\ (Frame(p).op \in AcquireOps /\ Frame(p).pc = "probe" /\ call'[p].pc = "done") =>
            (call'[p].res = "false" /\ locks' = locks)
       /\ (Frame(p).op = "idle" /\ call'[p].op \in AcquireOps /\ call'[p].pc = "done") =>
            (call'[p].res = "false" /\ locks' = locks)]_vars

(* an acquire has returned false after a conflict reported by the probe,    *)
(* and the stale row it would have deleted is still in the store            *)
C22_RefusedByProbe ==
  \E p \in Procs :
    /\ Frame(p).op = "acquireMasterLock"
    /\ Frame(p).pc = "done"
    /\ Frame(p).res = "false"
    /\ lmConflict[InstanceOf(p)].detected
    /\ \E r \in locks : IsStale(r)
    /\ \A r \in locks : r.instance_id = Old

(* instance i owns a live lease row of the name *)
OwnsLive(nm, i) == \E r \in OwnLocks(nm, i) : IsLive(r)

(* C23: re-entrant acquisition: a step of acquireMasterLock or              *)
(* acquireExecutionLock (past the probe) taken while the instance owns a    *)
(* live lease row of the requested name never returns false and never       *)
(* heads for the deletion and insertion of a row; the instance keeps        *)
(* exactly one row of that name.                                            *)
C23_ReentrantAcquire ==
  [][\A p \in Procs :
       (/\ Frame(p).op \in AcquireOps
        /\ Frame(p).pc \in LeasePcs
        /\ call'[p] # call[p]
        /\ OwnsLive(LeaseOf(Frame(p).op), InstanceOf(p))) =>
          /\ ~(call'[p].pc = "done" /\ call'[p].res = "false")
          /\ call'[p].pc \notin {"m_del", "e_del", "m_insert", "e_insert"}
          /\ Cardinality({r \in locks' : /\ r.name = LeaseOf(Frame(p).op)
                                         /\ r.instance_id = InstanceOf(p)}) = 1]_vars

(* caller p takes a step of acquireMasterLock from pc, past the probe *)
MasterStep(p, pc) ==
  /\ Frame(p).op = "acquireMasterLock"
  /\ Frame(p).pc = pc
  /\ call'[p] # call[p]

OthersLive(nm, i) == {r \in LiveLocks(nm) : r.instance_id # i}

----------------------------------------------------------------------------
(* The local marker: localLockManager.createLockFile() catches the error   *)
(* of fs.writeFileSync and returns false; acquireExecutionLock logs a      *)
(* warning and returns true all the same.                                  *)

(* acquireExecutionLock, lines 1133-1151, when createLockFile() fails *)
EInsertNoMarker(p) ==
  /\ Frame(p).pc = "e_insert"
  /\ locks' = locks \cup {LockRow(EXECUTION, InstanceOf(p), now, FreshDocId(EXECUTION, InstanceOf(p)))}
  /\ Finish(p, "true")
  /\ UNCHANGED <<now, taskLocks, lmVars>>

InitMarker == InitLease

NextMarker ==
  \/ \E p \in Procs : AcquireExecutionLock(p, Home(p))
  \/ \E p \in Procs : ReleaseAllLocks(p, Home(p))
  \/ \E p \in Procs : TestTelegramConnection(p)
  \/ \E p \in Procs : EFind(p)
  \/ \E p \in Procs : LRefresh(p)
  \/ \E p \in Procs : EDel(p)
  \/ \E p \in Procs : EInsert(p)
  \/ \E p \in Procs : EInsertNoMarker(p)
  \/ \E p \in Procs : RTasks(p)
  \/ \E p \in Procs : RLocks(p)
  \/ \E p \in Procs : Return(p)
  \/ Tick

SpecMarker == InitMarker /\ [][NextMarker]_vars

(* C25: whenever acquireExecutionLock returns true, the local marker exists *)
(* afterwards and names this instance, on the insert path and on the        *)
(* refresh path alike.                                                      *)
C25_MarkerAfterExecutionLock ==
  [][\A p \in Procs :
       (/\ Frame(p).op = "acquireExecutionLock"
        /\ Frame(p).pc # "done"
        /\ call'[p] # call[p]
        /\ call'[p].pc = "done"
        /\ call'[p].res = "true") =>
          lockFile'[InstanceOf(p)] = InstanceOf(p)]_vars

(* C25, refresh path alone: a re-entrant acquireExecutionLock that returns *)
(* true leaves the marker naming this instance.                            *)
C25_MarkerAfterRefresh ==
  [][\A p \in Procs :
       (/\ Frame(p).op = "acquireExecutionLock"
        /\ Frame(p).pc = "l_refresh"
        /\ call'[p] # call[p]
        /\ call'[p].pc = "done"
        /\ call'[p].res = "true") =>
          lockFile'[InstanceOf(p)] = InstanceOf(p)]_vars

----------------------------------------------------------------------------
(* Split-brain detection: two instances started together, both running a   *)
(* bot; the channel reports conflicts to the probes and to the polling of   *)
(* the running bots.  The clock stays at 0, so that every recorded conflict *)
(* is within CONFLICT_RECENT.                                               *)

EnvChannel == [EnvQuiet EXCEPT !.failures = 0, !.pollingErrors = 0]

InitConflict ==
  /\ now = 0
  /\ locks = {}
  /\ taskLocks = {}
  /\ call = [p \in Procs |-> Idle]
  /\ lmConflict = [i \in Instances |-> NoConflict]
  /\ lockFile = [i \in Instances |-> "none"]
  /\ app = [i \in Instances |-> Schedule(AppInit, "startup")]
  /\ env = EnvChannel

NextConflict ==
  \/ \E p \in Procs : TimerFires(p, Home(p))
  \/ \E p \in Procs : BotRetryTimer(p, Home(p))
  \/ \E p \in Procs : CallbackResumes(p)
  \/ \E p \in Procs : LockManagerStep(p)
  \/ \E p \in Procs : TlFindExisting(p)
  \/ \E p \in Procs : ShutdownStop(p)
  \/ \E p \in Procs : RTasks(p)
  \/ \E p \in Procs : RLocks(p)
  \/ \E p \in Procs : ResumeShutdown(p)
  \/ \E i \in Instances : PollingError(i)

SpecConflict == InitConflict /\ [][NextConflict]_vars

(* a conflict record (flag and time) that is set and younger than 2 minutes *)
Recent(c) == c.detected /\ c.time # -1 /\ now - c.time < CONFLICT_RECENT

(* the lock check of caller p gets the result of checkForInstanceConflicts, *)
(* no read of which threw                                                   *)
LockCheckReturns(p) ==
  /\ Resumes(p, "lockCheck")
  /\ call'[p] # call[p]
  /\ env' = env
  /\ app[InstanceOf(p)].shutdown = "no"

OwnsBoth(i) == OwnLocks(MASTER, i) # {} /\ OwnLocks(EXECUTION, i) # {}

(* C26: checkForInstanceConflicts returns false when the instance misses    *)
(* its master or execution row, or when another live execution lease exists *)
(* and a channel conflict was recorded by this instance within 2 minutes, a *)
(* conflict observed by the polling of the running bot included; it returns *)
(* true otherwise.  (On false the lock check enters performShutdown.)       *)
C26_ConflictCheck ==
  [][\A p \in Procs :
       LockCheckReturns(p) =>
         LET i == InstanceOf(p) IN
         (app'[i].shutdown = "no") <=>
            /\ OwnsBoth(i)
            /\ ~(/\ OthersLive(EXECUTION, i) # {}
                 /\ Recent(lmConflict[i]) \/ Recent(app[i].botConflict))]_vars

(* C26 without its last sentence: only the conflicts recorded by the probe *)
(* of the LockManager count.                                                *)
C26_ProbeConflictsOnly ==
  [][\A p \in Procs :
       LockCheckReturns(p) =>
         LET i == InstanceOf(p) IN
         (app'[i].shutdown = "no") <=>
            /\ OwnsBoth(i)
            /\ ~(OthersLive(EXECUTION, i) # {} /\ Recent(lmConflict[i]))]_vars

----------------------------------------------------------------------------
(* Cooldown: one instance whose retry timers for acquireExecutionLock fire  *)
(* on either call chain, also while an attempt is awaiting; several timers  *)
(* may be pending at once (lines 260, 285, 295 and 371 each set one).  The  *)
(* channel may fail and a lease row may be reclaimed, so that attempts are  *)
(* refused and retried and lost leases are acquired again.                  *)

EnvRetry == [EnvQuiet EXCEPT !.failures = 0, !.reclaims = 0]

InitCooldown ==
  /\ now = 0
  /\ \E d \in {{}} \cup {{r} : r \in {x \in DebrisLeaseRows : IsLive(x)}} : locks = d
  /\ taskLocks = {}
  /\ call = [p \in Procs |-> Idle]
  /\ lmConflict = [i \in Instances |-> NoConflict]
  /\ lockFile = [i \in Instances |-> "none"]
  /\ app = [i \in Instances |->
              IF i = Home(Main) THEN Schedule(AppInit, "startup") ELSE AppInit]
  /\ env = EnvRetry

(* one of several pending setTimeout(() => this.acquireExecutionLock())     *)
(* fires; another one stays pending                                         *)
AnotherExecutionTimer(p, i) ==
  LET e == ExecutionEntry(app[i], i) IN
  /\ Frame(p).op = "idle"
  /\ "acquireExecutionLock" \in app[i].timers
  /\ Continue(p, i, e.f, e.a)
  /\ UNCHANGED storeVars

NextCooldown ==
  \/ TimerFires(Main, Home(Main))
  \/ AcquireExecutionTimer(Side, Home(Main))
  \/ \E p \in Procs : AnotherExecutionTimer(p, Home(Main))
  \/ \E p \in Procs : ResumeAcquireExecution(p)
  \/ CallbackResumes(Main)
  \/ \E p \in Procs : LockManagerStep(p)
  \/ \E nm \in LeaseNames : LeaseReclaimed(Home(Main), nm)
  \/ AppTick

SpecCooldown == InitCooldown /\ [][NextCooldown]_vars

(* C27: within one instance, two consecutive calls that reach               *)
(* LockManager.acquireExecutionLock are at least                            *)
(* CONNECTION_ATTEMPT_COOLDOWN apart, whatever timers are pending and       *)
(* whether or not the attempt fails.                                        *)
C27_Cooldown ==
  \A i \in Instances :
    \A k \in 1..(Len(app[i].reached) - 1) :
      app[i].reached[k + 1] - app[i].reached[k] >= CONNECTION_ATTEMPT_COOLDOWN

(* a second attempt reached the LockManager on one call chain while a retry *)
(* timer is pending                                                         *)
C27_SecondAttemptReached ==
  \E i \in Instances :
    /\ Len(app[i].reached) >= 2
    /\ "acquireExecutionLock" \in app[i].timers
    /\ \E p \in Procs : Frame(p).op = "acquireExecutionLock" /\ InstanceOf(p) = i

----------------------------------------------------------------------------
(* A crashed owner: the store holds live lease rows of a process that has  *)
(* stopped (no heartbeat, no release), and one instance runs its life      *)
(* cycle.  The store answers every operation and every probe succeeds.     *)

MaxCrashTicks == 2

CrashTick ==
  /\ now < MaxCrashTicks * TickMs
  /\ now' = now + TickMs
  /\ UNCHANGED <<locks, taskLocks, call, lmVars>>

(* the rows of the crashed owner, last refreshed 160 s before the run *)
CrashedRows == {r \in DebrisLeaseRows : IsLive(r)}

InitCrash ==
  /\ now = 0
  /\ \E d \in SUBSET CrashedRows : d # {} /\ locks = d
  /\ taskLocks = {}
  /\ call = [p \in Procs |-> Idle]
  /\ lmConflict = [i \in Instances |-> NoConflict]
  /\ lockFile = [i \in Instances |-> "none"]
  /\ app = [i \in Instances |->
              IF i = Home(Main) THEN Schedule(AppInit, "startup") ELSE AppInit]
  /\ env = EnvQuiet

(* With a responsive store and a successful probe the instance never     *)
(* loses a lease: the retry of acquireExecutionLock and the re-acquisition *)
(* after a failed heartbeat are never scheduled, and no lease is refreshed *)
(* by an acquire.                                                          *)
CrashTimerFires(p, i) ==
  \/ StartInitializationSequence(p, i)
  \/ AcquireMasterTimer(p, i)
  \/ MasterHeartbeatTick(p, i)
  \/ ExecutionHeartbeatTick(p, i)
  \/ LockCheckTick(p, i)
  \/ StartBotTimer(p, i)

CrashCallbackResumes(p) ==
  \/ ResumeInitialization(p)
  \/ ResumeAcquireMaster(p)
  \/ ResumeAcquireExecution(p)
  \/ ResumeMasterHeartbeat(p)
  \/ ResumeExecutionSweep(p)
  \/ ResumeExecutionHeartbeat(p)
  \/ ResumeLockCheck(p)
  \/ ResumeStartBot(p)

CrashLockManagerStep(p) ==
  \/ CeAll(p)
  \/ CtExpired(p)
  \/ CtOld(p)
  \/ TestTelegramConnection(p)
  \/ MExecFind(p)
  \/ MStaleDel(p)
  \/ MFind(p)
  \/ EFind(p)
  \/ MDel(p)
  \/ EDel(p)
  \/ MInsert(p)
  \/ EInsert(p)
  \/ TlFindNone(p)
  \/ TlSave(p)
  \/ HbFind(p)
  \/ HbSave(p)
  \/ TlRelease(p)

NextCrash ==
  \/ CrashTimerFires(Main, Home(Main))
  \/ CrashCallbackResumes(Main)
  \/ CrashLockManagerStep(Main)
  \/ CrashTick

SpecCrash == InitCrash /\ [][NextCrash]_vars

(* Node runs every timer that is due and every continuation whose awaited  *)
(* operation has completed, and time passes.                               *)
FairCrash ==
  /\ SpecCrash
  /\ WF_vars(CrashTick)
  /\ WF_vars(CrashCallbackResumes(Main))
  /\ WF_vars(CrashLockManagerStep(Main))
  /\ SF_vars(StartInitializationSequence(Main, Home(Main)))
  /\ SF_vars(AcquireMasterTimer(Main, Home(Main)))

(* the same with a clock that never shows a row at exactly                 *)
(* GLOBAL_LOCK_TIMEOUT: it advances once, by 30 s                          *)
NextCrashCoarse ==
  \/ CrashTimerFires(Main, Home(Main))
  \/ CrashCallbackResumes(Main)
  \/ CrashLockManagerStep(Main)
  \/ AppTick

FairCrashCoarse ==
  /\ InitCrash /\ [][NextCrashCoarse]_vars
  /\ WF_vars(AppTick)
  /\ WF_vars(CrashCallbackResumes(Main))
  /\ WF_vars(CrashLockManagerStep(Main))
  /\ SF_vars(StartInitializationSequence(Main, Home(Main)))
  /\ SF_vars(AcquireMasterTimer(Main, Home(Main)))

(* C28: the lease rows of a crashed owner are eventually deleted, and the  *)
(* running instance eventually holds the leases, without the crashed owner *)
(* coming back.                                                            *)
C28_CrashedLeaseFreed ==
  /\ <>(\A r \in locks : r.instance_id # Old)
  /\ <>(OwnsLive(MASTER, Home(Main)) /\ OwnsLive(EXECUTION, Home(Main)))

(* the running instance takes over, whether or not the old rows are gone *)
C28_TakenOver ==
  <>(OwnsLive(MASTER, Home(Main)) /\ OwnsLive(EXECUTION, Home(Main)))

(* C29: the store never holds two non-expired TaskLock rows (expires_at in *)
(* the future) of the same task name.                                      *)
C29_OneLiveTaskLockPerName ==
  \A r, q \in taskLocks :
    (r.task_name = q.task_name /\ r.expires_at > now /\ q.expires_at > now) => r = q

----------------------------------------------------------------------------
(* Refusals of acquireTaskLock: the TaskLock collection holds rows that    *)
(* other processes saved with a TTL of 20 s, 10 s ago (not expired yet) and *)
(* 65 s ago (55 s old, so not yet removable, when the recent ones were       *)
(* saved), and a store operation may throw.                                 *)

RecentAge == 10 * 1000
AgedAge == 65 * 1000
RecentTaskRows ==
  {TaskRow(t, 0, Old, 0 - RecentAge, HEARTBEAT_LOCK_TIMEOUT - RecentAge) : t \in TaskNames}
AgedTaskRows ==
  {TaskRow(t, 0, Old, 0 - AgedAge, HEARTBEAT_LOCK_TIMEOUT - AgedAge) : t \in TaskNames}

InitRefusal ==
  /\ now = 0
  /\ locks = {}
  /\ \E d \in SUBSET (RecentTaskRows \cup AgedTaskRows) : taskLocks = d
  /\ call = [p \in Procs |-> Idle]
  /\ lmConflict = [i \in Instances |-> NoConflict]
  /\ lockFile = [i \in Instances |-> "none"]
  /\ app = [i \in Instances |-> AppInit]
  /\ env = EnvFaulty

NextRefusal ==
  \/ \E p \in Procs, t \in TaskNames, ttl \in TaskTTLs : ExecuteWithLock(p, Home(p), t, ttl)
  \/ \E p \in Procs : TlPre(p)
  \/ \E p \in Procs : TlFindNone(p)
  \/ \E p \in Procs : TlFindExisting(p)
  \/ \E p \in Procs : TlSave(p)
  \/ \E p \in Procs : FnEnds(p)
  \/ \E p \in Procs : TlRelease(p)
  \/ \E p \in Procs : StoreError(p)
  \/ \E p \in Procs : Return(p)

SpecRefusal == InitRefusal /\ [][NextRefusal]_vars

(* the non-expired locks of task t that acquireTaskLock does not force out *)
Blocking(t) ==
  {r \in ActiveTaskLocks(t) : ~(t = TEST /\ now - r.created_at > TEST_LOCK_ACQUIRE_AGE)}

(* caller p takes a step of acquireTaskLock *)
AcquireStep(p) ==
  /\ Frame(p).pc \in {"tl_pre", "tl_find"}
  /\ call'[p] # call[p]

(* C30: acquireTaskLock fails closed without side effects: while a          *)
(* non-expired lock of the task exists that is not past the ceiling, the    *)
(* call changes nothing in the TaskLock collection and its findOne ends it  *)
(* with success=false, for every task name; a store error ends it with      *)
(* success=false as well.                                                   *)
C30_FailsClosedWithoutSideEffects ==
  [][\A p \in Procs :
       (AcquireStep(p) /\ Blocking(Frame(p).task) # {}) =>
          /\ taskLocks' = taskLocks
          /\ Frame(p).pc = "tl_find" =>
               call'[p].pc = "done" /\ call'[p].res = Refusal(Frame(p).op)]_vars

(* C30 for the tasks other than the probe, and for the findOne of the probe *)
C30_RefusalByFind ==
  [][\A p \in Procs :
       (AcquireStep(p) /\ Frame(p).pc = "tl_find" /\ Blocking(Frame(p).task) # {}) =>
          /\ taskLocks' = taskLocks
          /\ call'[p].pc = "done" /\ call'[p].res = Refusal(Frame(p).op)]_vars

----------------------------------------------------------------------------
(* Claims on executeWithLock and the task-lock methods *)

(* the TaskLock rows saved by the call in progress on caller p *)
RowsOfCall(p) ==
  {r \in taskLocks : /\ r.task_name = Frame(p).task
                     /\ r.instance_id = InstanceOf(p)
                     /\ r.lock_id = Frame(p).lockId}

ReleaseStep(p) == Frame(p).pc = "tl_release" /\ call'[p] # call[p]

(* C32: releaseTaskLock(taskName, lockId) deletes only the row with that   *)
(* task name and that lock id, never a row saved by a later acquisition of *)
(* the same task name, and is a no-op returning false (deletedCount 0)      *)
(* when the row no longer exists.                                           *)
C32_ReleaseOnlyOwnRow ==
  [][\A p \in Procs :
       ReleaseStep(p) =>
          /\ taskLocks' = taskLocks \ RowsOfCall(p)
          /\ call'[p].n = 0 <=> RowsOfCall(p) = {}
          /\ RowsOfCall(p) = {} => taskLocks' = taskLocks]_vars

(* a probe that succeeded found its lock row gone at the release           *)
(* (deletedCount 0) while a lock saved by a later acquisition of the same   *)
(* task name is in the store                                                *)
C32_ReleasedNextToSuccessor ==
  \E p \in Procs :
    /\ Frame(p).op = "testTelegramConnection" /\ Frame(p).pc = "done"
    /\ Frame(p).res = "true" /\ Frame(p).n = 0
    /\ \E r \in taskLocks : r.task_name = Frame(p).task /\ r.expires_at > now


----------------------------------------------------------------------------
(* The sweeps alone, with a store that can throw: rows of an earlier       *)
(* process that are expired, aged, or still running.  A probe row saved    *)
(* 10 s ago does not stand next to an older probe row, which the save's    *)
(* own deleteMany (lines 701-708) would have removed.                      *)
SweepRowSets ==
  {d \in SUBSET (DebrisTaskRows \cup RecentTaskRows) :
      /\ Cardinality(d) <= 2
      /\ \A r, s \in d : (r.task_name = TEST /\ s.task_name = TEST) => r = s}

InitSweep ==
  /\ now = 0
  /\ locks = {}
  /\ \E d \in SweepRowSets : taskLocks = d
  /\ call = [p \in Procs |-> Idle]
  /\ lmConflict = [i \in Instances |-> NoConflict]
  /\ lockFile = [i \in Instances |-> "none"]
  /\ app = [i \in Instances |-> AppInit]
  /\ env = EnvFaulty

NextSweep ==
  \/ \E p \in Procs : CleanupExpiredTaskLocks(p, Home(p))
  \/ \E p \in Procs : CleanupTelegramTestLocks(p, Home(p))
  \/ \E p \in Procs : CeAll(p)
  \/ \E p \in Procs : CtExpired(p)
  \/ \E p \in Procs : CtOld(p)
  \/ \E p \in Procs : StoreError(p)
  \/ \E p \in Procs : Return(p)
  \/ Tick

SpecSweep == InitSweep /\ [][NextSweep]_vars

(* caller p takes a step of cleanupExpiredTaskLocks *)
SweepStep(p) ==
  /\ Frame(p).op = "cleanupExpiredTaskLocks"
  /\ Frame(p).pc \in SweepPcs
  /\ call'[p] # call[p]

(* the rows a step removes from TaskLock *)
Deleted == taskLocks \ taskLocks'

(* a step of the sweep deletes only expired rows and aged probe rows, no   *)
(* Lease row; a deleteMany that returns leaves no row of its filter        *)
SweepDeletes(p) ==
  /\ locks' = locks
  /\ Deleted \subseteq ExpiredTaskLocks \cup TestLocksOlderThan(TEST_LOCK_CLEANUP_AGE)
  /\ (env' = env /\ Frame(p).pc = "ce_all") => ExpiredTaskLocks \cap taskLocks' = {}
  /\ (env' = env /\ Frame(p).pc = "ct_old") =>
        TestLocksOlderThan(TEST_LOCK_CLEANUP_AGE) \cap taskLocks' = {}

(* C33: cleanupExpiredTaskLocks deletes every TaskLock whose expires_at    *)
(* has passed and every telegram_test lock created more than 2 minutes     *)
(* ago, deletes no other TaskLock and no Lease row, and returns the number *)
(* of rows it deleted, 0 when a store operation threw.                     *)
C33_SweepDeletesAndCounts ==
  [][\A p \in Procs : SweepStep(p) =>
        /\ SweepDeletes(p)
        /\ call'[p].pc = "done" =>
             call'[p].n = IF env' # env THEN 0 ELSE Frame(p).n + Cardinality(Deleted)]_vars

(* the same without the store errors: the deletions and the sum of the     *)
(* three deletedCount values                                               *)
C33_SweepWithoutErrors ==
  [][\A p \in Procs : (SweepStep(p) /\ env' = env) =>
        /\ SweepDeletes(p)
        /\ call'[p].pc = "done" => call'[p].n = Frame(p).n + Cardinality(Deleted)]_vars

(* the count returned is the number of rows the call deleted, store error  *)
(* or not                                                                  *)
C33_CountIsDeletions ==
  [][\A p \in Procs : (SweepStep(p) /\ call'[p].pc = "done") =>
        call'[p].n = Frame(p).n + Cardinality(Deleted)]_vars


----------------------------------------------------------------------------
(* The start of a process: AppManager.initialize awaits                    *)
(* LockManager.initialize (line 98), which deletes the rows of its own     *)
(* instance id and runs emergencyCleanupLocks (lines 632-646), and then    *)
(* starts the initialization sequence (line 101) whatever initialize       *)
(* returned.                                                               *)

(* lines 635: Lock.deleteMany({instance_id: this.instanceId}) *)
LiLocks(p) ==
  /\ Frame(p).pc = "li_locks"
  /\ locks' = {r \in locks : r.instance_id # InstanceOf(p)}
  /\ Goto(p, "li_tasks")
  /\ UNCHANGED <<now, taskLocks, lmVars>>

(* lines 636-639: TaskLock.deleteMany({instance_id: this.instanceId}),     *)
(* then emergencyCleanupLocks is called                                    *)
LiTasks(p) ==
  /\ Frame(p).pc = "li_tasks"
  /\ taskLocks' = {r \in taskLocks : r.instance_id # InstanceOf(p)}
  /\ call' = [call EXCEPT ![p].op = "emergencyCleanupLocks", ![p].pc = "ec_test"]
  /\ UNCHANGED <<now, locks, lmVars>>

(* part_001 lines 98-101: initialize has returned (true, or false from its *)
(* catch block, lines 642-645; the value is not read) and                  *)
(* startInitializationSequence sets its start-up delay                     *)
ResumeInitialize(p) ==
  /\ Resumes(p, "initialize")
  /\ Continue(p, InstanceOf(p), Idle, Schedule(app[InstanceOf(p)], "startup"))
  /\ UNCHANGED <<now, locks, taskLocks, lmConflict, lockFile, env>>

(* TaskLock rows an earlier process saved 6 minutes ago *)
AncientAge == 360 * 1000
AncientTaskRows ==
  {TaskRow(t, 0, Old, 0 - AncientAge, HEARTBEAT_LOCK_TIMEOUT - AncientAge) : t \in TaskNames}

StartRowSets ==
  {d \in SUBSET (AncientTaskRows \cup DebrisTaskRows \cup RecentTaskRows) :
      /\ Cardinality(d) <= 2
      /\ \A r, s \in d : (r.task_name = TEST /\ s.task_name = TEST) => r = s}

(* two processes start; the store holds rows of earlier processes *)
InitStart ==
  /\ now = 0
  /\ \E d \in {{}} \cup {{r} : r \in DebrisLeaseRows} : locks = d
  /\ \E d \in StartRowSets : taskLocks = d
  /\ call = [p \in Procs |->
               WithCb(NewCall("initialize", "li_locks", Home(p), "none", 0, 0), "initialize")]
  /\ lmConflict = [i \in Instances |-> NoConflict]
  /\ lockFile = [i \in Instances |-> "none"]
  /\ app = [i \in Instances |-> AppInit]
  /\ env = EnvFaulty

NextStart ==
  \/ \E p \in Procs : LiLocks(p)
  \/ \E p \in Procs : LiTasks(p)
  \/ \E p \in Procs : EcTest(p)
  \/ \E p \in Procs : EcFind(p)
  \/ \E p \in Procs : EcOld(p)
  \/ \E p \in Procs : StoreError(p)
  \/ \E p \in Procs : ResumeInitialize(p)

SpecStart == InitStart /\ [][NextStart]_vars

(* caller p takes a step of emergencyCleanupLocks *)
EmergencyStep(p) ==
  /\ Frame(p).op = "emergencyCleanupLocks"
  /\ Frame(p).pc \in StartPcs
  /\ call'[p] # call[p]

(* the task locks of holders other than h that are older than 5 minutes *)
OldLocksOfOthers(h) ==
  {r \in taskLocks : r.instance_id # h /\ r.created_at < now - EMERGENCY_AGE}

(* what a step of emergencyCleanupLocks deletes and what it keeps: the     *)
(* first deleteMany takes the probe locks of every holder, the second the  *)
(* locks of other holders older than 5 minutes; nothing else goes          *)
EmergencyDeletes(p) ==
  /\ locks' = locks
  /\ (Frame(p).pc = "ec_test" /\ env' = env) =>
        Deleted = {r \in taskLocks : r.task_name = TEST}
  /\ (Frame(p).pc = "ec_find" /\ env' = env) =>
        /\ Deleted = {}
        /\ call'[p].pc = "done" => OldLocksOfOthers(InstanceOf(p)) = {}
  /\ (Frame(p).pc = "ec_old" /\ env' = env) => Deleted = OldLocksOfOthers(InstanceOf(p))
  /\ env' # env => Deleted = {}

(* C34: emergencyCleanupLocks deletes all telegram_test locks of every     *)
(* holder and all TaskLocks of other holders older than 5 minutes, leaves  *)
(* the younger locks of other holders and every Lease row unchanged, and   *)
(* has run, once, when the starting instance goes on to contend for the    *)
(* leases.                                                                 *)
C34_EmergencyCleanupAtStart ==
  [][\A p \in Procs :
        /\ EmergencyStep(p) => EmergencyDeletes(p)
        /\ (Resumes(p, "initialize") /\ call'[p] # call[p]) =>
              /\ Frame(p).op = "emergencyCleanupLocks"
              /\ Frame(p).res = "true"]_vars

(* the deletions alone, whether the cleanup is reached or not *)
C34_EmergencyDeletions ==
  [][\A p \in Procs : EmergencyStep(p) => EmergencyDeletes(p)]_vars

(* without store errors the cleanup has run when the instance goes on *)
C34_CleanupRanUnlessStoreError ==
  [][\A p \in Procs : (Resumes(p, "initialize") /\ call'[p] # call[p]) =>
        \/ Frame(p).op = "emergencyCleanupLocks" /\ Frame(p).res = "true"
        \/ env.storeErrors > 0]_vars


----------------------------------------------------------------------------
(* Every deletion of Lease rows: a process that starts (Side) next to a    *)
(* process that acquires and releases leases (Main); afterwards both       *)
(* contend.  The store holds a lease row and possibly a task lock of       *)
(* earlier processes.                                                      *)
InitDelete ==
  /\ now = 0
  /\ \E d \in {{}} \cup {{r} : r \in DebrisLeaseRows} : locks = d
  /\ \E d \in {{}} \cup {{r} : r \in AncientTaskRows} : taskLocks = d
  /\ call = [p \in Procs |->
               IF p = Side
               THEN WithCb(NewCall("initialize", "li_locks", Home(p), "none", 0, 0),
                           "initialize")
               ELSE Idle]
  /\ lmConflict = [i \in Instances |-> NoConflict]
  /\ lockFile = [i \in Instances |-> "none"]
  /\ app = [i \in Instances |-> AppInit]
  /\ env = EnvInit

NextDelete ==
  \/ NextLease
  \/ LiLocks(Side)
  \/ LiTasks(Side)
  \/ EcTest(Side)
  \/ EcFind(Side)
  \/ EcOld(Side)
  \/ ResumeInitialize(Side)

SpecDelete == InitDelete /\ [][NextDelete]_vars

(* the Lease documents a step removes from the collection (a save keeps    *)
(* the document and changes its last_heartbeat)                            *)
DeletedLeases == {r \in locks : \A s \in locks' : s.id # r.id \/ s.name # r.name
                                                  \/ s.instance_id # r.instance_id}

(* C35: every Lease row a step of instance h deletes (initialize,          *)
(* acquireMasterLock, acquireExecutionLock, releaseAllLocks) is a row of h *)
(* or has a last_heartbeat more than 180 s before the delete; no live row  *)
(* of another instance is deleted.                                         *)
C35_DeletesOwnOrStaleLeases ==
  [][\A p \in Procs : call'[p] # call[p] =>
        \A r \in DeletedLeases :
           \/ r.instance_id = InstanceOf(p)
           \/ now - r.last_heartbeat > GLOBAL_LOCK_TIMEOUT]_vars

(* the deleteMany of acquireMasterLock has run and left a live lease of    *)
(* the other instance and a row of an earlier process that is exactly      *)
(* 180 s old, while the clock has advanced                                 *)
C35_StaleDeleteNextToLiveLease ==
  \E p \in Procs :
     /\ Frame(p).pc = "m_find"
     /\ now > 0
     /\ \E r \in locks : r.instance_id \notin {InstanceOf(p), Old} /\ IsLive(r)
     /\ \E r \in locks : r.instance_id = Old /\ now - r.last_heartbeat = GLOBAL_LOCK_TIMEOUT


----------------------------------------------------------------------------
(* isActiveInstance (lines 652-687), called by the notification timers     *)
(* (utils/notifier.js line 41) while the instances acquire the execution   *)
(* lease.                                                                  *)

(* {name: 'execution_lock', instance_id: this.instanceId, last_heartbeat:  *)
(* {$gt: now - GLOBAL_LOCK_TIMEOUT}}                                       *)
OwnLiveExecution(i) == {r \in LiveLocks(EXECUTION) : r.instance_id = i}

(* {name: 'execution_lock', instance_id: {$ne: this.instanceId},           *)
(* last_heartbeat: {$gt: executionLock.last_heartbeat}}                    *)
NewerExecution(i, hb) ==
  {r \in locks : r.name = EXECUTION /\ r.instance_id # i /\ r.last_heartbeat > hb}

IsActiveInstance(p, i) ==
  /\ Frame(p).op = "idle"
  /\ call' = [call EXCEPT ![p] = NewCall("isActiveInstance", "ia_own", i, "none", 0, 0)]
  /\ UNCHANGED <<now, locks, taskLocks, lmVars>>

(* lines 655-665: findOne the own live execution lease; without one the    *)
(* call returns false                                                      *)
IaOwn(p) ==
  /\ Frame(p).pc = "ia_own"
  /\ IF OwnLiveExecution(InstanceOf(p)) = {}
     THEN Finish(p, "false")
     ELSE \E e \in OwnLiveExecution(InstanceOf(p)) :
            call' = [call EXCEPT ![p].pc = "ia_newer", ![p].hb = e.last_heartbeat]
  /\ UNCHANGED <<now, locks, taskLocks, lmVars>>

(* lines 668-680: findOne an execution lease of another instance with a    *)
(* last_heartbeat after the one read; false with one, true without         *)
IaNewer(p) ==
  /\ Frame(p).pc = "ia_newer"
  /\ IF NewerExecution(InstanceOf(p), Frame(p).hb) # {}
     THEN Finish(p, "false")
     ELSE Finish(p, "true")
  /\ UNCHANGED <<now, locks, taskLocks, lmVars>>

InitActive == InitLease

NextActive ==
  \/ \E p \in Procs : AcquireExecutionLock(p, Home(p))
  \/ \E p \in Procs : IsActiveInstance(p, Home(p))
  \/ \E p \in Procs : TestTelegramConnection(p)
  \/ \E p \in Procs : EFind(p)
  \/ \E p \in Procs : LRefresh(p)
  \/ \E p \in Procs : EDel(p)
  \/ \E p \in Procs : EInsert(p)
  \/ \E p \in Procs : IaOwn(p)
  \/ \E p \in Procs : IaNewer(p)
  \/ \E p \in Procs : StoreError(p)
  \/ \E p \in Procs : Return(p)
  \/ Tick

SpecActive == InitActive /\ [][NextActive]_vars

(* what isActiveInstance of instance i answers in the present store *)
ActiveNow(i) ==
  \E e \in OwnLiveExecution(i) : NewerExecution(i, e.last_heartbeat) = {}

(* caller p takes a step of isActiveInstance *)
ActiveStep(p) ==
  /\ Frame(p).op = "isActiveInstance"
  /\ Frame(p).pc \in ActivePcs
  /\ call'[p] # call[p]

(* C36: isActiveInstance is exclusive: when it returns true to an instance *)
(* that instance owns a live execution lease, no execution lease of        *)
(* another instance has a newer heartbeat, and no other instance gets true *)
(* in the same store; after a store error it returns false.                *)
C36_ActiveInstanceExclusive ==
  [][\A p \in Procs : ActiveStep(p) =>
        /\ env' # env => call'[p].res = "false"
        /\ call'[p].res = "true" =>
             /\ OwnLiveExecution(InstanceOf(p)) # {}
             /\ \A i \in Instances \ {InstanceOf(p)} : ~ActiveNow(i)]_vars

(* the conditions of a true answer and the answer after a store error,     *)
(* without the exclusion                                                   *)
C36_TrueOnlyForNewestOwner ==
  [][\A p \in Procs : ActiveStep(p) =>
        /\ env' # env => call'[p].res = "false"
        /\ call'[p].res = "true" =>
             /\ OwnLiveExecution(InstanceOf(p)) # {}
             /\ NewerExecution(InstanceOf(p), Frame(p).hb) = {}]_vars

(* with execution leases whose heartbeats differ at most one instance is   *)
(* the active one                                                          *)
C36_ExclusiveUnlessEqualHeartbeats ==
  (\A r, s \in LiveLocks(EXECUTION) : r.instance_id # s.instance_id
                                       => r.last_heartbeat # s.last_heartbeat)
     => Cardinality({i \in Instances : ActiveNow(i)}) <= 1


----------------------------------------------------------------------------
(* The order of the shutdown sequence (SpecSignal) *)

(* caller p runs the Lock.deleteMany of the releaseAllLocks that            *)
(* performShutdown awaits (line 580)                                        *)
ShutdownDeletesLeases(p) ==
  /\ Frame(p).op = "releaseAllLocks"
  /\ Frame(p).cb \in ShutdownCallers
  /\ Frame(p).pc = "r_locks"
  /\ call'[p].pc = "done"
  /\ env' = env

(* no interval of instance i is set and its bot is not running *)
Stopped(i) ==
  /\ ~app[i].masterHb
  /\ ~app[i].execHb
  /\ ~app[i].lockCheck
  /\ app[i].bot # "running"

(* the lease rows go after the timers were cancelled and the bot stopped   *)
C37_LeasesDeletedWhenStopped ==
  [][\A p \in Procs : ShutdownDeletesLeases(p) => Stopped(InstanceOf(p))]_vars

(* the connection is closed after releaseAllLocks has returned *)
C37_ClosedAfterRelease ==
  [][\A i \in Instances :
       (app[i].connected /\ ~app'[i].connected /\ ~app'[i].exited) => ReleaseCompleted(i)]_vars

(* after performShutdown has returned the bot is not running and is not    *)
(* started                                                                 *)
C37_NoBotAfterShutdown ==
  [][\A i \in Instances : app[i].finished => app'[i].bot # "running"]_vars

(* C37: in performShutdown the lease rows of the instance are deleted only *)
(* after its heartbeat and check timers were cancelled and its Consumer    *)
(* was stopped, the store connection is closed only after releaseAllLocks  *)
(* ran, and once performShutdown has completed the Consumer is not running *)
(* and is never started again.                                             *)
C37_ShutdownOrdering ==
  [][/\ \A p \in Procs : ShutdownDeletesLeases(p) => Stopped(InstanceOf(p))
     /\ \A i \in Instances :
          /\ (app[i].connected /\ ~app'[i].connected /\ ~app'[i].exited)
                => ReleaseCompleted(i)
          /\ app[i].finished => app'[i].bot # "running"]_vars


----------------------------------------------------------------------------
(* The interval timers of one instance: overlapping heartbeat callbacks,   *)
(* heartbeat failures and re-acquisitions, with lease rows that other      *)
(* processes remove.                                                       *)
EnvTimers == [EnvQuiet EXCEPT !.reclaims = 0]

InitTimers ==
  /\ now = 0
  /\ locks = {}
  /\ taskLocks = {}
  /\ call = [p \in Procs |-> Idle]
  /\ lmConflict = [i \in Instances |-> NoConflict]
  /\ lockFile = [i \in Instances |-> "none"]
  /\ app = [i \in Instances |->
              IF i = Home(Main) THEN Schedule(AppInit, "startup") ELSE AppInit]
  /\ env = EnvTimers

NextTimers ==
  \/ NextOverlap
  \/ \E nm \in LeaseNames : LeaseReclaimed(Home(Main), nm)

SpecTimers == InitTimers /\ [][NextTimers]_vars

(* a callback of instance i is running, or a timer is pending, that goes   *)
(* on to acquire the lease nm                                              *)
AcquisitionPending(i, nm) ==
  LET leads == IF nm = MASTER
               THEN {"startup", "startInitializationSequence", "acquireMasterLock",
                     "masterHeartbeat"}
               ELSE {"startup", "startInitializationSequence", "acquireMasterLock",
                     "acquireExecutionLock", "executionHeartbeat", "reacquire"}
  IN
  \/ app[i].timers \cap leads # {}
  \/ \E p \in Procs : Frame(p).inst = i /\ Frame(p).cb \in leads

HeartbeatOf(nm) == IF nm = MASTER THEN "masterHb" ELSE "execHb"

(* C38: an instance has at most one active master heartbeat interval, one  *)
(* active execution heartbeat interval and one active lock check interval, *)
(* whatever the acquisitions, heartbeat failures and re-acquisitions; and  *)
(* an instance that is not shutting down and owns a lease has the          *)
(* heartbeat interval of that lease or an acquisition of it pending, also  *)
(* after a heartbeat callback failed when its interval had been replaced.  *)
C38_OneTimerAndNoOrphanLease ==
  \A i \in Instances :
    /\ \A k \in DOMAIN app[i].active : app[i].active[k] <= 1
    /\ app[i].shutdown = "no" =>
         \A nm \in LeaseNames :
            (OwnLocks(nm, i) # {} /\ ~app[i][HeartbeatOf(nm)]) => AcquisitionPending(i, nm)

(* a heartbeat callback of an interval that had been replaced has failed:  *)
(* the start timer set with the new interval is still pending (the new     *)
(* interval has not ticked), the interval is cleared, the re-acquisition   *)
(* is scheduled and the instance owns its execution lease                  *)
C38_FailedAfterReplacement ==
  \E i \in Instances :
    /\ app[i].shutdown = "no"
    /\ ~app[i].execHb
    /\ {"startBot", "reacquire"} \subseteq app[i].timers
    /\ OwnLocks(EXECUTION, i) # {}


----------------------------------------------------------------------------
(* The local marker file: the life cycle of one instance, up to its        *)
(* termination by a signal, in a working directory where an earlier        *)
(* process may have left its .bot_lock.                                    *)
InitFile ==
  /\ now = 0
  /\ \E d \in {{}} \cup {{r} : r \in DebrisLeaseRows} : locks = d
  /\ taskLocks = {}
  /\ call = [p \in Procs |-> Idle]
  /\ lmConflict = [i \in Instances |-> NoConflict]
  /\ \E m \in {"none", Old} : lockFile = [i \in Instances |-> m]
  /\ app = [i \in Instances |->
              IF i = Home(Main) THEN Schedule(AppInit, "startup") ELSE AppInit]
  /\ env = [EnvFaulty EXCEPT !.reclaims = 0]

NextFile ==
  \/ NextSignal
  \/ \E nm \in LeaseNames : LeaseReclaimed(Home(Main), nm)

SpecFile == InitFile /\ [][NextFile]_vars

(* the marker in the directory of instance i names instance h *)
MarkerNames(i, h) == lockFile[i] = h

(* removeLockFile, called by releaseAllLocks, leaves a marker that names   *)
(* another instance id as it is                                            *)
C39_ForeignMarkerKept ==
  [][\A p \in Procs :
       (Frame(p).op = "releaseAllLocks" /\ call'[p] # call[p]) =>
          (~MarkerNames(InstanceOf(p), InstanceOf(p)) => lockFile' = lockFile)]_vars

(* checkLocalLocks leaves a marker that names this instance *)
C39_CheckLeavesOwnMarker ==
  [][\A p \in Procs :
       (Resumes(p, "lockCheck") /\ call'[p] # call[p] /\ ~app'[InstanceOf(p)].exited) =>
          lockFile'[InstanceOf(p)] = InstanceOf(p)]_vars

(* a marker naming a running instance exists only while that instance owns *)
(* an execution lease row                                                  *)
C39_MarkerOnlyWithLease ==
  \A i, h \in Instances : MarkerNames(i, h) => OwnLocks(EXECUTION, h) # {}

(* C39: removeLockFile (and so releaseAllLocks) never deletes or modifies  *)
(* a marker that names a different instance id; checkLocalLocks, when it   *)
(* returns true, leaves a marker naming this instance; and a marker naming *)
(* instance h exists only while h owns an execution lease row.             *)
C39_MarkerOwnership ==
  [][/\ \A p \in Procs :
          /\ (Frame(p).op = "releaseAllLocks" /\ call'[p] # call[p]) =>
                (~MarkerNames(InstanceOf(p), InstanceOf(p)) => lockFile' = lockFile)
          /\ (Resumes(p, "lockCheck") /\ call'[p] # call[p] /\ ~app'[InstanceOf(p)].exited) =>
                lockFile'[InstanceOf(p)] = InstanceOf(p)
     /\ \A i, h \in Instances :
          lockFile'[i] = h => \E r \in locks' : r.name = EXECUTION /\ r.instance_id = h]_vars

====
